---- MODULE Spec2Model ----
(***************************************************************************)
(* The ticket intake and disposition engine of the service desk            *)
(* (src/project2_service_desk.py): create_ticket and the methods of        *)
(* ServiceDeskAutomation it calls.                                         *)
(*                                                                         *)
(* Texts are TLA+ strings; the functions that look inside a text           *)
(* (lower-casing, substring tests, slicing, UTF-8 encoding) work on its    *)
(* sequence of characters, Chars[s].  A Python value that may be None is   *)
(* a sequence of length at most one: None is << >>, the value v is <<v>>.  *)
(***************************************************************************)
EXTENDS Integers, Sequences, FiniteSets, TLC

\* ---- BEGIN text tables ----
\* The resolution texts of the knowledge base (lines 229-237, 241-251, 255-264).
PASSWORD_RESET_resolution ==
  "\n                Your password has been reset. Please follow these steps:\n                1. Check your email for the password reset link\n                2. Click the link and create a new password\n                3. Use at least 8 characters with a mix of letters, numbers, and symbols\n                4. Try logging in with your new password\n                \n                If you don't receive the email within 5 minutes, check your spam folder.\n                "
WIFI_CONNECTION_resolution ==
  "\n                To resolve WiFi connection issues:\n                1. Restart your device\n                2. Forget the network and reconnect\n                3. Ensure you're using the correct password\n                4. Check if other devices can connect\n                5. Move closer to the access point\n                \n                Network: CompanyWiFi\n                Password: [Check with IT if needed]\n                "
SOFTWARE_CRASH_resolution ==
  "\n                To resolve application crashes:\n                1. Close the application completely\n                2. Restart your computer\n                3. Check for software updates\n                4. Clear application cache if possible\n                5. Reinstall if the issue persists\n                \n                If this doesn't resolve the issue, we'll need to investigate further.\n                "

\* Chars[s]: the characters of the text s, for every text the model handles.
Chars ==
  ("HARDWARE" :> <<"H", "A", "R", "D", "W", "A", "R", "E">>) @@
  ("SOFTWARE" :> <<"S", "O", "F", "T", "W", "A", "R", "E">>) @@
  ("NETWORK" :> <<"N", "E", "T", "W", "O", "R", "K">>) @@
  ("ACCESS" :> <<"A", "C", "C", "E", "S", "S">>) @@
  ("EMAIL" :> <<"E", "M", "A", "I", "L">>) @@
  ("OTHER" :> <<"O", "T", "H", "E", "R">>) @@
  ("resolution:" :> <<"r", "e", "s", "o", "l", "u", "t", "i", "o", "n", ":">>) @@
  (":" :> <<":">>) @@
  (" " :> <<" ">>) @@
  ("urgent" :> <<"u", "r", "g", "e", "n", "t">>) @@
  ("critical" :> <<"c", "r", "i", "t", "i", "c", "a", "l">>) @@
  ("emergency" :> <<"e", "m", "e", "r", "g", "e", "n", "c", "y">>) @@
  ("down" :> <<"d", "o", "w", "n">>) @@
  ("crashed" :> <<"c", "r", "a", "s", "h", "e", "d">>) @@
  ("broken" :> <<"b", "r", "o", "k", "e", "n">>) @@
  ("asap" :> <<"a", "s", "a", "p">>) @@
  ("important" :> <<"i", "m", "p", "o", "r", "t", "a", "n", "t">>) @@
  ("quickly" :> <<"q", "u", "i", "c", "k", "l", "y">>) @@
  ("soon" :> <<"s", "o", "o", "n">>) @@
  ("cannot work" :> <<"c", "a", "n", "n", "o", "t", " ", "w", "o", "r", "k">>) @@
  ("blocked" :> <<"b", "l", "o", "c", "k", "e", "d">>) @@
  ("issue" :> <<"i", "s", "s", "u", "e">>) @@
  ("problem" :> <<"p", "r", "o", "b", "l", "e", "m">>) @@
  ("error" :> <<"e", "r", "r", "o", "r">>) @@
  ("help" :> <<"h", "e", "l", "p">>) @@
  ("password" :> <<"p", "a", "s", "s", "w", "o", "r", "d">>) @@
  ("reset" :> <<"r", "e", "s", "e", "t">>) @@
  ("forgot" :> <<"f", "o", "r", "g", "o", "t">>) @@
  ("locked" :> <<"l", "o", "c", "k", "e", "d">>) @@
  ("wifi" :> <<"w", "i", "f", "i">>) @@
  ("wireless" :> <<"w", "i", "r", "e", "l", "e", "s", "s">>) @@
  ("connect" :> <<"c", "o", "n", "n", "e", "c", "t">>) @@
  ("network" :> <<"n", "e", "t", "w", "o", "r", "k">>) @@
  ("crash" :> <<"c", "r", "a", "s", "h">>) @@
  ("stopped working" :> <<"s", "t", "o", "p", "p", "e", "d", " ", "w", "o", "r", "k", "i", "n", "g">>) @@
  ("not responding" :> <<"n", "o", "t", " ", "r", "e", "s", "p", "o", "n", "d", "i", "n", "g">>) @@
  ("contact it" :> <<"c", "o", "n", "t", "a", "c", "t", " ", "i", "t">>) @@
  ("admin required" :> <<"a", "d", "m", "i", "n", " ", "r", "e", "q", "u", "i", "r", "e", "d">>) @@
  ("none" :> <<"n", "o", "n", "e">>) @@
  ("Forgot my password" :> <<"F", "o", "r", "g", "o", "t", " ", "m", "y", " ", "p", "a", "s", "s", "w", "o", "r", "d">>) @@
  ("locked out, need reset" :> <<"l", "o", "c", "k", "e", "d", " ", "o", "u", "t", ",", " ", "n", "e", "e", "d", " ", "r", "e", "s", "e", "t">>) @@
  ("VPN not connecting" :> <<"V", "P", "N", " ", "n", "o", "t", " ", "c", "o", "n", "n", "e", "c", "t", "i", "n", "g">>) @@
  ("cannot connect to VPN from home, getting error" :> <<"c", "a", "n", "n", "o", "t", " ", "c", "o", "n", "n", "e", "c", "t", " ", "t", "o", " ", "V", "P", "N", " ", "f", "r", "o", "m", " ", "h", "o", "m", "e", ",", " ", "g", "e", "t", "t", "i", "n", "g", " ", "e", "r", "r", "o", "r">>) @@
  ("I forgot my password" :> <<"I", " ", "f", "o", "r", "g", "o", "t", " ", "m", "y", " ", "p", "a", "s", "s", "w", "o", "r", "d">>) @@
  ("System completely down, URGENT" :> <<"S", "y", "s", "t", "e", "m", " ", "c", "o", "m", "p", "l", "e", "t", "e", "l", "y", " ", "d", "o", "w", "n", ",", " ", "U", "R", "G", "E", "N", "T">>) @@
  ("production outage" :> <<"p", "r", "o", "d", "u", "c", "t", "i", "o", "n", " ", "o", "u", "t", "a", "g", "e">>) @@
  ("Printer makes noise" :> <<"P", "r", "i", "n", "t", "e", "r", " ", "m", "a", "k", "e", "s", " ", "n", "o", "i", "s", "e">>) @@
  ("please look at it when convenient" :> <<"p", "l", "e", "a", "s", "e", " ", "l", "o", "o", "k", " ", "a", "t", " ", "i", "t", " ", "w", "h", "e", "n", " ", "c", "o", "n", "v", "e", "n", "i", "e", "n", "t">>) @@
  ("Account blocked" :> <<"A", "c", "c", "o", "u", "n", "t", " ", "b", "l", "o", "c", "k", "e", "d">>) @@
  ("I forgot my password, important" :> <<"I", " ", "f", "o", "r", "g", "o", "t", " ", "m", "y", " ", "p", "a", "s", "s", "w", "o", "r", "d", ",", " ", "i", "m", "p", "o", "r", "t", "a", "n", "t">>) @@
  ("Excel crashed" :> <<"E", "x", "c", "e", "l", " ", "c", "r", "a", "s", "h", "e", "d">>) @@
  ("urgent problem: error on startup, need help" :> <<"u", "r", "g", "e", "n", "t", " ", "p", "r", "o", "b", "l", "e", "m", ":", " ", "e", "r", "r", "o", "r", " ", "o", "n", " ", "s", "t", "a", "r", "t", "u", "p", ",", " ", "n", "e", "e", "d", " ", "h", "e", "l", "p">>) @@
  ("Monitor issue" :> <<"M", "o", "n", "i", "t", "o", "r", " ", "i", "s", "s", "u", "e">>) @@
  ("the screen flickers every morning" :> <<"t", "h", "e", " ", "s", "c", "r", "e", "e", "n", " ", "f", "l", "i", "c", "k", "e", "r", "s", " ", "e", "v", "e", "r", "y", " ", "m", "o", "r", "n", "i", "n", "g">>) @@
  ("App crash after password change" :> <<"A", "p", "p", " ", "c", "r", "a", "s", "h", " ", "a", "f", "t", "e", "r", " ", "p", "a", "s", "s", "w", "o", "r", "d", " ", "c", "h", "a", "n", "g", "e">>) @@
  ("it stopped working after I changed it" :> <<"i", "t", " ", "s", "t", "o", "p", "p", "e", "d", " ", "w", "o", "r", "k", "i", "n", "g", " ", "a", "f", "t", "e", "r", " ", "I", " ", "c", "h", "a", "n", "g", "e", "d", " ", "i", "t">>) @@
  ("Download folder missing" :> <<"D", "o", "w", "n", "l", "o", "a", "d", " ", "f", "o", "l", "d", "e", "r", " ", "m", "i", "s", "s", "i", "n", "g">>) @@
  ("I cannot find my download folder" :> <<"I", " ", "c", "a", "n", "n", "o", "t", " ", "f", "i", "n", "d", " ", "m", "y", " ", "d", "o", "w", "n", "l", "o", "a", "d", " ", "f", "o", "l", "d", "e", "r">>) @@
  ("Shared calendar shows the wrong meeting times for everyone" :> <<"S", "h", "a", "r", "e", "d", " ", "c", "a", "l", "e", "n", "d", "a", "r", " ", "s", "h", "o", "w", "s", " ", "t", "h", "e", " ", "w", "r", "o", "n", "g", " ", "m", "e", "e", "t", "i", "n", "g", " ", "t", "i", "m", "e", "s", " ", "f", "o", "r", " ", "e", "v", "e", "r", "y", "o", "n", "e">>) @@
  ("the calendar app is not responding" :> <<"t", "h", "e", " ", "c", "a", "l", "e", "n", "d", "a", "r", " ", "a", "p", "p", " ", "i", "s", " ", "n", "o", "t", " ", "r", "e", "s", "p", "o", "n", "d", "i", "n", "g">>) @@
  ("Shared calendar shows the wrong meeting times for the wireless team" :> <<"S", "h", "a", "r", "e", "d", " ", "c", "a", "l", "e", "n", "d", "a", "r", " ", "s", "h", "o", "w", "s", " ", "t", "h", "e", " ", "w", "r", "o", "n", "g", " ", "m", "e", "e", "t", "i", "n", "g", " ", "t", "i", "m", "e", "s", " ", "f", "o", "r", " ", "t", "h", "e", " ", "w", "i", "r", "e", "l", "e", "s", "s", " ", "t", "e", "a", "m">>) @@
  ("Shared calendar shows the wrong meeting times for my manager" :> <<"S", "h", "a", "r", "e", "d", " ", "c", "a", "l", "e", "n", "d", "a", "r", " ", "s", "h", "o", "w", "s", " ", "t", "h", "e", " ", "w", "r", "o", "n", "g", " ", "m", "e", "e", "t", "i", "n", "g", " ", "t", "i", "m", "e", "s", " ", "f", "o", "r", " ", "m", "y", " ", "m", "a", "n", "a", "g", "e", "r">>) @@
  ("it is important, the wifi is affected too" :> <<"i", "t", " ", "i", "s", " ", "i", "m", "p", "o", "r", "t", "a", "n", "t", ",", " ", "t", "h", "e", " ", "w", "i", "f", "i", " ", "i", "s", " ", "a", "f", "f", "e", "c", "t", "e", "d", " ", "t", "o", "o">>) @@
  ("Restart the router and reconnect." :> <<"R", "e", "s", "t", "a", "r", "t", " ", "t", "h", "e", " ", "r", "o", "u", "t", "e", "r", " ", "a", "n", "d", " ", "r", "e", "c", "o", "n", "n", "e", "c", "t", ".">>) @@
  ("Please CONTACT IT support." :> <<"P", "l", "e", "a", "s", "e", " ", "C", "O", "N", "T", "A", "C", "T", " ", "I", "T", " ", "s", "u", "p", "p", "o", "r", "t", ".">>) @@
  ("Admin required for this change." :> <<"A", "d", "m", "i", "n", " ", "r", "e", "q", "u", "i", "r", "e", "d", " ", "f", "o", "r", " ", "t", "h", "i", "s", " ", "c", "h", "a", "n", "g", "e", ".">>) @@
  ("None" :> <<"N", "o", "n", "e">>) @@
  ("Reinstall the driver; none of your files are affected." :> <<"R", "e", "i", "n", "s", "t", "a", "l", "l", " ", "t", "h", "e", " ", "d", "r", "i", "v", "e", "r", ";", " ", "n", "o", "n", "e", " ", "o", "f", " ", "y", "o", "u", "r", " ", "f", "i", "l", "e", "s", " ", "a", "r", "e", " ", "a", "f", "f", "e", "c", "t", "e", "d", ".">>) @@
  ("" :> <<>>) @@
  ("URGENT " :> <<"U", "R", "G", "E", "N", "T", " ">>) @@
  ("system is down" :> <<"s", "y", "s", "t", "e", "m", " ", "i", "s", " ", "d", "o", "w", "n">>) @@
  ("load" :> <<"l", "o", "a", "d">>) @@
  ("cannot" :> <<"c", "a", "n", "n", "o", "t">>) @@
  (" work" :> <<" ", "w", "o", "r", "k">>) @@
  ("Help" :> <<"H", "e", "l", "p">>) @@
  ("soon, big problem " :> <<"s", "o", "o", "n", ",", " ", "b", "i", "g", " ", "p", "r", "o", "b", "l", "e", "m", " ">>) @@
  ("err" :> <<"e", "r", "r">>) @@
  ("or " :> <<"o", "r", " ">>) @@
  ("printer jam " :> <<"p", "r", "i", "n", "t", "e", "r", " ", "j", "a", "m", " ">>) @@
  ("As" :> <<"A", "s">>) @@
  ("ap" :> <<"a", "p">>) @@
  ("Quick" :> <<"Q", "u", "i", "c", "k">>) @@
  ("ly" :> <<"l", "y">>) @@
  ("pass" :> <<"p", "a", "s", "s">>) @@
  ("word" :> <<"w", "o", "r", "d">>) @@
  ("WiFi" :> <<"W", "i", "F", "i">>) @@
  ("ed" :> <<"e", "d">>) @@
  ("not res" :> <<"n", "o", "t", " ", "r", "e", "s">>) @@
  ("ponding" :> <<"p", "o", "n", "d", "i", "n", "g">>) @@
  ("N" :> <<"N">>) @@
  ("one" :> <<"o", "n", "e">>) @@
  ("Contact" :> <<"C", "o", "n", "t", "a", "c", "t">>) @@
  (" IT" :> <<" ", "I", "T">>) @@
  ("reboot it" :> <<"r", "e", "b", "o", "o", "t", " ", "i", "t">>) @@
  ("stopped" :> <<"s", "t", "o", "p", "p", "e", "d">>) @@
  ("working" :> <<"w", "o", "r", "k", "i", "n", "g">>) @@
  (PASSWORD_RESET_resolution :> <<"\n", " ", " ", " ", " ", " ", " ", " ", " ", " ", " ", " ", " ", " ", " ", " ", " ", "Y", "o", "u", "r", " ", "p", "a", "s", "s", "w", "o", "r", "d", " ", "h", "a", "s", " ", "b", "e", "e", "n", " ", "r", "e", "s", "e", "t", ".", " ", "P", "l", "e", "a", "s", "e", " ", "f", "o", "l", "l", "o", "w", " ", "t", "h", "e", "s", "e", " ", "s", "t", "e", "p", "s", ":", "\n", " ", " ", " ", " ", " ", " ", " ", " ", " ", " ", " ", " ", " ", " ", " ", " ", "1", ".", " ", "C", "h", "e", "c", "k", " ", "y", "o", "u", "r", " ", "e", "m", "a", "i", "l", " ", "f", "o", "r", " ", "t", "h", "e", " ", "p", "a", "s", "s", "w", "o", "r", "d", " ", "r", "e", "s", "e", "t", " ", "l", "i", "n", "k", "\n", " ", " ", " ", " ", " ", " ", " ", " ", " ", " ", " ", " ", " ", " ", " ", " ", "2", ".", " ", "C", "l", "i", "c", "k", " ", "t", "h", "e", " ", "l", "i", "n", "k", " ", "a", "n", "d", " ", "c", "r", "e", "a", "t", "e", " ", "a", " ", "n", "e", "w", " ", "p", "a", "s", "s", "w", "o", "r", "d", "\n", " ", " ", " ", " ", " ", " ", " ", " ", " ", " ", " ", " ", " ", " ", " ", " ", "3", ".", " ", "U", "s", "e", " ", "a", "t", " ", "l", "e", "a", "s", "t", " ", "8", " ", "c", "h", "a", "r", "a", "c", "t", "e", "r", "s", " ", "w", "i", "t", "h", " ", "a", " ", "m", "i", "x", " ", "o", "f", " ", "l", "e", "t", "t", "e", "r", "s", ",", " ", "n", "u", "m", "b", "e", "r", "s", ",", " ", "a", "n", "d", " ", "s", "y", "m", "b", "o", "l", "s", "\n", " ", " ", " ", " ", " ", " ", " ", " ", " ", " ", " ", " ", " ", " ", " ", " ", "4", ".", " ", "T", "r", "y", " ", "l", "o", "g", "g", "i", "n", "g", " ", "i", "n", " ", "w", "i", "t", "h", " ", "y", "o", "u", "r", " ", "n", "e", "w", " ", "p", "a", "s", "s", "w", "o", "r", "d", "\n", " ", " ", " ", " ", " ", " ", " ", " ", " ", " ", " ", " ", " ", " ", " ", " ", "\n", " ", " ", " ", " ", " ", " ", " ", " ", " ", " ", " ", " ", " ", " ", " ", " ", "I", "f", " ", "y", "o", "u", " ", "d", "o", "n", "'", "t", " ", "r", "e", "c", "e", "i", "v", "e", " ", "t", "h", "e", " ", "e", "m", "a", "i", "l", " ", "w", "i", "t", "h", "i", "n", " ", "5", " ", "m", "i", "n", "u", "t", "e", "s", ",", " ", "c", "h", "e", "c", "k", " ", "y", "o", "u", "r", " ", "s", "p", "a", "m", " ", "f", "o", "l", "d", "e", "r", ".", "\n", " ", " ", " ", " ", " ", " ", " ", " ", " ", " ", " ", " ", " ", " ", " ", " ">>) @@
  (WIFI_CONNECTION_resolution :> <<"\n", " ", " ", " ", " ", " ", " ", " ", " ", " ", " ", " ", " ", " ", " ", " ", " ", "T", "o", " ", "r", "e", "s", "o", "l", "v", "e", " ", "W", "i", "F", "i", " ", "c", "o", "n", "n", "e", "c", "t", "i", "o", "n", " ", "i", "s", "s", "u", "e", "s", ":", "\n", " ", " ", " ", " ", " ", " ", " ", " ", " ", " ", " ", " ", " ", " ", " ", " ", "1", ".", " ", "R", "e", "s", "t", "a", "r", "t", " ", "y", "o", "u", "r", " ", "d", "e", "v", "i", "c", "e", "\n", " ", " ", " ", " ", " ", " ", " ", " ", " ", " ", " ", " ", " ", " ", " ", " ", "2", ".", " ", "F", "o", "r", "g", "e", "t", " ", "t", "h", "e", " ", "n", "e", "t", "w", "o", "r", "k", " ", "a", "n", "d", " ", "r", "e", "c", "o", "n", "n", "e", "c", "t", "\n", " ", " ", " ", " ", " ", " ", " ", " ", " ", " ", " ", " ", " ", " ", " ", " ", "3", ".", " ", "E", "n", "s", "u", "r", "e", " ", "y", "o", "u", "'", "r", "e", " ", "u", "s", "i", "n", "g", " ", "t", "h", "e", " ", "c", "o", "r", "r", "e", "c", "t", " ", "p", "a", "s", "s", "w", "o", "r", "d", "\n", " ", " ", " ", " ", " ", " ", " ", " ", " ", " ", " ", " ", " ", " ", " ", " ", "4", ".", " ", "C", "h", "e", "c", "k", " ", "i", "f", " ", "o", "t", "h", "e", "r", " ", "d", "e", "v", "i", "c", "e", "s", " ", "c", "a", "n", " ", "c", "o", "n", "n", "e", "c", "t", "\n", " ", " ", " ", " ", " ", " ", " ", " ", " ", " ", " ", " ", " ", " ", " ", " ", "5", ".", " ", "M", "o", "v", "e", " ", "c", "l", "o", "s", "e", "r", " ", "t", "o", " ", "t", "h", "e", " ", "a", "c", "c", "e", "s", "s", " ", "p", "o", "i", "n", "t", "\n", " ", " ", " ", " ", " ", " ", " ", " ", " ", " ", " ", " ", " ", " ", " ", " ", "\n", " ", " ", " ", " ", " ", " ", " ", " ", " ", " ", " ", " ", " ", " ", " ", " ", "N", "e", "t", "w", "o", "r", "k", ":", " ", "C", "o", "m", "p", "a", "n", "y", "W", "i", "F", "i", "\n", " ", " ", " ", " ", " ", " ", " ", " ", " ", " ", " ", " ", " ", " ", " ", " ", "P", "a", "s", "s", "w", "o", "r", "d", ":", " ", "[", "C", "h", "e", "c", "k", " ", "w", "i", "t", "h", " ", "I", "T", " ", "i", "f", " ", "n", "e", "e", "d", "e", "d", "]", "\n", " ", " ", " ", " ", " ", " ", " ", " ", " ", " ", " ", " ", " ", " ", " ", " ">>) @@
  (SOFTWARE_CRASH_resolution :> <<"\n", " ", " ", " ", " ", " ", " ", " ", " ", " ", " ", " ", " ", " ", " ", " ", " ", "T", "o", " ", "r", "e", "s", "o", "l", "v", "e", " ", "a", "p", "p", "l", "i", "c", "a", "t", "i", "o", "n", " ", "c", "r", "a", "s", "h", "e", "s", ":", "\n", " ", " ", " ", " ", " ", " ", " ", " ", " ", " ", " ", " ", " ", " ", " ", " ", "1", ".", " ", "C", "l", "o", "s", "e", " ", "t", "h", "e", " ", "a", "p", "p", "l", "i", "c", "a", "t", "i", "o", "n", " ", "c", "o", "m", "p", "l", "e", "t", "e", "l", "y", "\n", " ", " ", " ", " ", " ", " ", " ", " ", " ", " ", " ", " ", " ", " ", " ", " ", "2", ".", " ", "R", "e", "s", "t", "a", "r", "t", " ", "y", "o", "u", "r", " ", "c", "o", "m", "p", "u", "t", "e", "r", "\n", " ", " ", " ", " ", " ", " ", " ", " ", " ", " ", " ", " ", " ", " ", " ", " ", "3", ".", " ", "C", "h", "e", "c", "k", " ", "f", "o", "r", " ", "s", "o", "f", "t", "w", "a", "r", "e", " ", "u", "p", "d", "a", "t", "e", "s", "\n", " ", " ", " ", " ", " ", " ", " ", " ", " ", " ", " ", " ", " ", " ", " ", " ", "4", ".", " ", "C", "l", "e", "a", "r", " ", "a", "p", "p", "l", "i", "c", "a", "t", "i", "o", "n", " ", "c", "a", "c", "h", "e", " ", "i", "f", " ", "p", "o", "s", "s", "i", "b", "l", "e", "\n", " ", " ", " ", " ", " ", " ", " ", " ", " ", " ", " ", " ", " ", " ", " ", " ", "5", ".", " ", "R", "e", "i", "n", "s", "t", "a", "l", "l", " ", "i", "f", " ", "t", "h", "e", " ", "i", "s", "s", "u", "e", " ", "p", "e", "r", "s", "i", "s", "t", "s", "\n", " ", " ", " ", " ", " ", " ", " ", " ", " ", " ", " ", " ", " ", " ", " ", " ", "\n", " ", " ", " ", " ", " ", " ", " ", " ", " ", " ", " ", " ", " ", " ", " ", " ", "I", "f", " ", "t", "h", "i", "s", " ", "d", "o", "e", "s", "n", "'", "t", " ", "r", "e", "s", "o", "l", "v", "e", " ", "t", "h", "e", " ", "i", "s", "s", "u", "e", ",", " ", "w", "e", "'", "l", "l", " ", "n", "e", "e", "d", " ", "t", "o", " ", "i", "n", "v", "e", "s", "t", "i", "g", "a", "t", "e", " ", "f", "u", "r", "t", "h", "e", "r", ".", "\n", " ", " ", " ", " ", " ", " ", " ", " ", " ", " ", " ", " ", " ", " ", " ", " ">>)

\* Ord[c]: the code point of the character c; every character here is ASCII,
\* so its UTF-8 encoding is the single byte Ord[c].
Ord ==
  ("\n" :> 10) @@ (" " :> 32) @@ ("'" :> 39) @@ ("," :> 44) @@ ("." :> 46) @@ ("1" :> 49) @@
  ("2" :> 50) @@ ("3" :> 51) @@ ("4" :> 52) @@ ("5" :> 53) @@ ("8" :> 56) @@ (":" :> 58) @@
  (";" :> 59) @@ ("A" :> 65) @@ ("C" :> 67) @@ ("D" :> 68) @@ ("E" :> 69) @@ ("F" :> 70) @@
  ("G" :> 71) @@ ("H" :> 72) @@ ("I" :> 73) @@ ("K" :> 75) @@ ("L" :> 76) @@ ("M" :> 77) @@
  ("N" :> 78) @@ ("O" :> 79) @@ ("P" :> 80) @@ ("Q" :> 81) @@ ("R" :> 82) @@ ("S" :> 83) @@
  ("T" :> 84) @@ ("U" :> 85) @@ ("V" :> 86) @@ ("W" :> 87) @@ ("Y" :> 89) @@ ("[" :> 91) @@
  ("]" :> 93) @@ ("a" :> 97) @@ ("b" :> 98) @@ ("c" :> 99) @@ ("d" :> 100) @@ ("e" :> 101) @@
  ("f" :> 102) @@ ("g" :> 103) @@ ("h" :> 104) @@ ("i" :> 105) @@ ("j" :> 106) @@ ("k" :> 107) @@
  ("l" :> 108) @@ ("m" :> 109) @@ ("n" :> 110) @@ ("o" :> 111) @@ ("p" :> 112) @@ ("q" :> 113) @@
  ("r" :> 114) @@ ("s" :> 115) @@ ("t" :> 116) @@ ("u" :> 117) @@ ("v" :> 118) @@ ("w" :> 119) @@
  ("x" :> 120) @@ ("y" :> 121)

\* LowerCase[c]: str.lower() on the upper-case letters; other characters are kept.
LowerCase ==
  ("A" :> "a") @@ ("B" :> "b") @@ ("C" :> "c") @@ ("D" :> "d") @@ ("E" :> "e") @@ ("F" :> "f") @@ ("G" :> "g") @@
  ("H" :> "h") @@ ("I" :> "i") @@ ("J" :> "j") @@ ("K" :> "k") @@ ("L" :> "l") @@ ("M" :> "m") @@ ("N" :> "n") @@
  ("O" :> "o") @@ ("P" :> "p") @@ ("Q" :> "q") @@ ("R" :> "r") @@ ("S" :> "s") @@ ("T" :> "t") @@ ("U" :> "u") @@
  ("V" :> "v") @@ ("W" :> "w") @@ ("X" :> "x") @@ ("Y" :> "y") @@ ("Z" :> "z")
\* ---- END text tables ----

-----------------------------------------------------------------------------
\* Python values and string operations.

None == << >>

Some(v) == <<v>>

\* str.lower()
Lower(t) ==
  [i \in 1..Len(t) |-> IF t[i] \in DOMAIN LowerCase THEN LowerCase[t[i]] ELSE t[i]]

\* needle in hay, on strings
Contains(hay, needle) ==
  \E i \in 0..(Len(hay) - Len(needle)) :
    \A j \in 1..Len(needle) : hay[i + j] = needle[j]

\* t[:n]
Take(t, n) == SubSeq(t, 1, IF Len(t) < n THEN Len(t) ELSE n)

\* any(word in text for word in words)
AnyIn(words, text) ==
  \E k \in 1..Len(words) : Contains(text, Chars[words[k]])

\* str.encode('utf-8') as redis-py applies it to a value, and bytes.decode('utf-8')
encode_utf8(s) == [i \in 1..Len(Chars[s]) |-> Ord[Chars[s][i]]]

Encoded == [s \in DOMAIN Chars |-> encode_utf8(s)]

decode_utf8(b) == CHOOSE s \in DOMAIN Chars : Encoded[s] = b

-----------------------------------------------------------------------------
\* class Priority, class Status, class Category

Priority_LOW == "LOW"
\* MEDIUM = "HIGH": the member HIGH becomes an alias of MEDIUM.
Priority_MEDIUM_valued_HIGH == "HIGH"

Priority_MEDIUM == "MEDIUM"
Priority_HIGH == "HIGH"
Priority_CRITICAL == "CRITICAL"

Priority == {Priority_LOW, Priority_MEDIUM, Priority_HIGH, Priority_CRITICAL}

Status_NEW == "NEW"
Status_IN_PROGRESS == "IN_PROGRESS"
Status_RESOLVED == "RESOLVED"
Status_CLOSED == "CLOSED"
Status_ESCALATED == "ESCALATED"

Status == {Status_NEW, Status_IN_PROGRESS, Status_RESOLVED, Status_CLOSED, Status_ESCALATED}

Category == {"HARDWARE", "SOFTWARE", "NETWORK", "ACCESS", "EMAIL", "OTHER"}

\* The labels of the training data: the classes the fitted classifier predicts.
TrainedCategories == {"HARDWARE", "SOFTWARE", "NETWORK", "ACCESS", "EMAIL"}

-----------------------------------------------------------------------------
\* ServiceDeskAutomation._determine_priority

critical_keywords ==
  <<"urgent", "critical", "emergency", "down", "crashed", "broken", "asap">>

high_keywords == <<"important", "quickly", "soon", "cannot work", "blocked">>

medium_keywords == <<"issue", "problem", "error", "help">>

\* _determine_priority with the HIGH test ahead of the CRITICAL test.
_determine_priority_high_first(text) ==
  LET text_lower == Lower(text)
  IN  IF AnyIn(high_keywords, text_lower) THEN Priority_HIGH
      ELSE IF AnyIn(critical_keywords, text_lower) THEN Priority_CRITICAL
      ELSE IF AnyIn(medium_keywords, text_lower) THEN Priority_MEDIUM
      ELSE Priority_LOW

_determine_priority(text) ==
  LET text_lower == Lower(text)
  IN  IF AnyIn(critical_keywords, text_lower) THEN Priority_CRITICAL
      ELSE IF AnyIn(high_keywords, text_lower) THEN Priority_HIGH
      ELSE IF AnyIn(medium_keywords, text_lower) THEN Priority_MEDIUM
      ELSE Priority_LOW

-----------------------------------------------------------------------------
\* The requests the model submits (TicketCreate: 5 <= len(title) <= 200,
\* 10 <= len(description)), and the answers of the two external capabilities.

Requests ==
  { [title |-> "Forgot my password", description |-> "locked out, need reset"],
    [title |-> "VPN not connecting",
     description |-> "cannot connect to VPN from home, getting error"],
    [title |-> "VPN not connecting", description |-> "I forgot my password"],
    [title |-> "System completely down, URGENT", description |-> "production outage"],
    [title |-> "Printer makes noise", description |-> "please look at it when convenient"],
    [title |-> "Account blocked", description |-> "I forgot my password, important"],
    [title |-> "Monitor issue", description |-> "the screen flickers every morning"],
    [title |-> "Shared calendar shows the wrong meeting times for everyone",
     description |-> "the calendar app is not responding"],
    [title |-> "Shared calendar shows the wrong meeting times for the wireless team",
     description |-> "please look at it when convenient"],
    [title |-> "Shared calendar shows the wrong meeting times for my manager",
     description |-> "please look at it when convenient"],
    [title |-> "Shared calendar shows the wrong meeting times for my manager",
     description |-> "it is important, the wifi is affected too"] }

\* What classifier.predict does with a request: it answers one of the labels it
\* was fitted on, or raises (vectorizer or classifier unusable).
ClassifierOutcomes ==
  { [raised |-> FALSE, label |-> c] : c \in TrainedCategories }
    \cup { [raised |-> TRUE, label |-> "OTHER"] }

\* What ChatCompletion.acreate does: it answers with a message content, or raises
\* (API error, request timeout).
AiResponses ==
  { "Restart the router and reconnect.",
    "Please CONTACT IT support.",
    "Admin required for this change.",
    "None",
    "Reinstall the driver; none of your files are affected.",
    "" }

AiOutcomes ==
  { [raised |-> FALSE, error |-> "", content |-> r] : r \in AiResponses }
    \cup { [raised |-> TRUE, error |-> e, content |-> ""] : e \in {"APIError", "Timeout"} }

-----------------------------------------------------------------------------
\* ServiceDeskAutomation.classify_ticket

\* f"{title} {description}"
combined_text(title, description) == Chars[title] \o Chars[" "] \o Chars[description]

\* _determine_priority on the texts of the requests, evaluated once.
priority_of ==
  [r \in Requests |-> _determine_priority(combined_text(r.title, r.description))]

classify_ticket(title, description, predict) ==
  IF predict.raised
  THEN [raised |-> TRUE, category |-> "OTHER", priority |-> Priority_LOW]
  ELSE [raised |-> FALSE,
        category |-> predict.label,
        priority |-> priority_of[[title |-> title, description |-> description]]]

-----------------------------------------------------------------------------
\* The Redis commands the engine uses.  An entry holds the encoded value and the
\* time it expires at; GET answers nil for a missing or expired key.

\* GET that does not look at the expiry.
redis_get_unexpiring(c, key, t) ==
  IF key \in DOMAIN c THEN Some(c[key].value) ELSE None

redis_get(c, key, t) ==
  IF key \in DOMAIN c /\ t < c[key].expire_at THEN Some(c[key].value) ELSE None

\* The time taken as the instant of expiry (EXPIREAT) instead of a time to live.
redis_setex_expireat(c, key, time, value, t) ==
  (key :> [value |-> Encoded[value], expire_at |-> time]) @@ c

\* SET with NX: a live entry is kept, the new value is dropped.
redis_setex_if_absent(c, key, time, value, t) ==
  IF key \in DOMAIN c /\ t < c[key].expire_at
  THEN c
  ELSE (key :> [value |-> Encoded[value], expire_at |-> t + time]) @@ c

redis_setex(c, key, time, value, t) ==
  (key :> [value |-> Encoded[value], expire_at |-> t + time]) @@ c

-----------------------------------------------------------------------------
\* ServiceDeskAutomation.auto_resolve_ticket

knowledge_base ==
  << [issue_type |-> "PASSWORD_RESET",
      keywords |-> <<"password", "reset", "forgot", "locked">>,
      resolution |-> PASSWORD_RESET_resolution],
     [issue_type |-> "WIFI_CONNECTION",
      keywords |-> <<"wifi", "wireless", "connect", "network">>,
      resolution |-> WIFI_CONNECTION_resolution],
     [issue_type |-> "SOFTWARE_CRASH",
      keywords |-> <<"crash", "error", "stopped working", "not responding">>,
      resolution |-> SOFTWARE_CRASH_resolution] >>

\* The key made of the category and the whole title.
cache_key_whole_title(category, title) ==
  Chars["resolution:"] \o Chars[category] \o Chars[":"] \o Chars[title]

\* f"resolution:{ticket['category']}:{ticket['title'][:50]}"
cache_key(category, title) ==
  Chars["resolution:"] \o Chars[category] \o Chars[":"] \o Take(Chars[title], 50)

\* The loop without its early return: the last matching entry is answered.
check_knowledge_base_last_match(ticket_text) ==
  LET matching == { k \in 1..Len(knowledge_base) :
                      AnyIn(knowledge_base[k].keywords, ticket_text) }
  IN  IF matching = {} THEN None
      ELSE Some(knowledge_base[CHOOSE k \in matching : \A m \in matching : k >= m].resolution)

\* The loop asking for all the keywords of an entry instead of any.
check_knowledge_base_all_keywords(ticket_text) ==
  LET matching == { k \in 1..Len(knowledge_base) :
                      \A n \in 1..Len(knowledge_base[k].keywords) :
                        Contains(ticket_text, Chars[knowledge_base[k].keywords[n]]) }
  IN  IF matching = {} THEN None
      ELSE Some(knowledge_base[CHOOSE k \in matching : \A m \in matching : k <= m].resolution)

\* The knowledge-base loop: the resolution of the first entry with a keyword in
\* the text, None when the loop ends without a match.
check_knowledge_base(ticket_text) ==
  LET matching == { k \in 1..Len(knowledge_base) :
                      AnyIn(knowledge_base[k].keywords, ticket_text) }
  IN  IF matching = {} THEN None
      ELSE Some(knowledge_base[CHOOSE k \in matching : \A m \in matching : k <= m].resolution)

\* The knowledge-base loop on the texts of the requests, evaluated once.
kb_of ==
  [r \in Requests |-> check_knowledge_base(Lower(combined_text(r.title, r.description)))]

\* The knowledge base consulted before the cache.
auto_resolve_ticket_kb_first(ticket, c, t) ==
  LET key == cache_key(ticket.category, ticket.title)
      cached_resolution == redis_get(c, key, t)
      kb_resolution == kb_of[[title |-> ticket.title, description |-> ticket.description]]
  IN  IF kb_resolution # None
      THEN [kind |-> "kb", resolution |-> kb_resolution,
            setex |-> << [key |-> key, time |-> 3600, value |-> kb_resolution[1]] >>,
            steps |-> <<"knowledge_base">>]
      ELSE IF cached_resolution # None /\ Len(cached_resolution[1]) > 0
      THEN [kind |-> "cache", resolution |-> Some(decode_utf8(cached_resolution[1])),
            setex |-> << >>, steps |-> <<"knowledge_base", "cache_get">>]
      ELSE IF ticket.priority \in {Priority_LOW, Priority_MEDIUM}
      THEN [kind |-> "ai", resolution |-> None, setex |-> << >>,
            steps |-> <<"knowledge_base", "cache_get", "ai_call">>]
      ELSE [kind |-> "none", resolution |-> None, setex |-> << >>,
            steps |-> <<"knowledge_base", "cache_get">>]

\* A cache hit that sets the entry again, with a new time to live.
auto_resolve_ticket_refreshing(ticket, c, t) ==
  LET key == cache_key(ticket.category, ticket.title)
      cached_resolution == redis_get(c, key, t)
      kb_resolution == kb_of[[title |-> ticket.title, description |-> ticket.description]]
  IN  IF cached_resolution # None /\ Len(cached_resolution[1]) > 0
      THEN [kind |-> "cache", resolution |-> Some(decode_utf8(cached_resolution[1])),
            setex |-> << [key |-> key, time |-> 3600,
                          value |-> decode_utf8(cached_resolution[1])] >>,
            steps |-> <<"cache_get">>]
      ELSE IF kb_resolution # None
      THEN [kind |-> "kb", resolution |-> kb_resolution,
            setex |-> << [key |-> key, time |-> 3600, value |-> kb_resolution[1]] >>,
            steps |-> <<"cache_get", "knowledge_base">>]
      ELSE IF ticket.priority \in {Priority_LOW, Priority_MEDIUM}
      THEN [kind |-> "ai", resolution |-> None, setex |-> << >>,
            steps |-> <<"cache_get", "knowledge_base", "ai_call">>]
      ELSE [kind |-> "none", resolution |-> None, setex |-> << >>,
            steps |-> <<"cache_get", "knowledge_base">>]

\* auto_resolve_ticket up to its return or to the await of the AI call.
\*   kind = "cache" | "kb": returns resolution;  "none": returns None;
\*   kind = "ai": suspended in _generate_ai_resolution.
\* setex lists the SETEX commands it has sent, steps the sources it has consulted.
auto_resolve_ticket(ticket, c, t) ==
  LET key == cache_key(ticket.category, ticket.title)
      cached_resolution == redis_get(c, key, t)
      kb_resolution == kb_of[[title |-> ticket.title, description |-> ticket.description]]
  IN  IF cached_resolution # None /\ Len(cached_resolution[1]) > 0
      THEN [kind |-> "cache", resolution |-> Some(decode_utf8(cached_resolution[1])),
            setex |-> << >>, steps |-> <<"cache_get">>]
      ELSE IF kb_resolution # None
      THEN [kind |-> "kb", resolution |-> kb_resolution,
            setex |-> << [key |-> key, time |-> 3600, value |-> kb_resolution[1]] >>,
            steps |-> <<"cache_get", "knowledge_base">>]
      ELSE IF ticket.priority \in {Priority_LOW, Priority_MEDIUM}
      THEN [kind |-> "ai", resolution |-> None, setex |-> << >>,
            steps |-> <<"cache_get", "knowledge_base", "ai_call">>]
      ELSE [kind |-> "none", resolution |-> None, setex |-> << >>,
            steps |-> <<"cache_get", "knowledge_base">>]

\* _generate_ai_resolution without the except clause.
_generate_ai_resolution_uncaught(outcome) ==
  IF outcome.raised
  THEN [raised |-> TRUE, value |-> None]
  ELSE IF AnyIn(<<"contact it", "admin required", "none">>, Lower(Chars[outcome.content]))
  THEN [raised |-> FALSE, value |-> None]
  ELSE [raised |-> FALSE, value |-> Some(outcome.content)]

\* ServiceDeskAutomation._generate_ai_resolution, from the capability's outcome on.
_generate_ai_resolution(outcome) ==
  IF outcome.raised
  THEN [raised |-> FALSE, value |-> None]
  ELSE IF AnyIn(<<"contact it", "admin required", "none">>, Lower(Chars[outcome.content]))
  THEN [raised |-> FALSE, value |-> None]
  ELSE [raised |-> FALSE, value |-> Some(outcome.content)]

\* _generate_ai_resolution on the outcomes of the capability, evaluated once.
ai_resolution_of == [o \in AiOutcomes |-> _generate_ai_resolution(o)]

\* The AI resolution returned without being written to the cache.
auto_resolve_ticket_resume_unwritten(ticket, resolution) ==
  IF resolution # None /\ resolution[1] # ""
  THEN [resolution |-> resolution, setex |-> << >>, steps |-> <<"ai_return">>]
  ELSE [resolution |-> None, setex |-> << >>, steps |-> <<"ai_return">>]

\* auto_resolve_ticket after the await: write-back of a usable AI resolution.
auto_resolve_ticket_resume(ticket, resolution) ==
  IF resolution # None /\ resolution[1] # ""
  THEN [resolution |-> resolution,
        setex |-> << [key |-> cache_key(ticket.category, ticket.title),
                      time |-> 3600, value |-> resolution[1]] >>,
        steps |-> <<"ai_return">>]
  ELSE [resolution |-> None, setex |-> << >>, steps |-> <<"ai_return">>]

-----------------------------------------------------------------------------
\* ServiceDeskAutomation.assign_ticket

team_skills ==
  << [email |-> "john.doe@company.com", categories |-> {"HARDWARE", "NETWORK"},
      max_tickets |-> 10, current_load |-> 5],
     [email |-> "jane.smith@company.com", categories |-> {"SOFTWARE", "EMAIL"},
      max_tickets |-> 12, current_load |-> 3],
     [email |-> "bob.wilson@company.com", categories |-> {"ACCESS", "NETWORK"},
      max_tickets |-> 8, current_load |-> 7] >>

\* The candidates sorted on their current_load instead of their ratio.
select_assignee_by_load(roster, category) ==
  LET suitable == { k \in 1..Len(roster) :
                      /\ category \in roster[k].categories
                      /\ roster[k].current_load < roster[k].max_tickets }
      best == CHOOSE k \in suitable :
                \A m \in suitable :
                  /\ roster[k].current_load <= roster[m].current_load
                  /\ (roster[k].current_load < roster[m].current_load \/ k <= m)
      least == CHOOSE k \in 1..Len(roster) :
                 \A m \in 1..Len(roster) :
                   /\ roster[k].current_load <= roster[m].current_load
                   /\ (roster[k].current_load < roster[m].current_load \/ k <= m)
  IN  IF suitable = {} THEN roster[least].email ELSE roster[best].email

\* A sort that is not stable: the latest of equal candidates comes first.
select_assignee_unstable(roster, category) ==
  LET suitable == { k \in 1..Len(roster) :
                      /\ category \in roster[k].categories
                      /\ roster[k].current_load < roster[k].max_tickets }
      RatioLess(a, b) ==
        roster[a].current_load * roster[b].max_tickets
          < roster[b].current_load * roster[a].max_tickets
      best == CHOOSE k \in suitable :
                \A m \in suitable : ~RatioLess(m, k) /\ (RatioLess(k, m) \/ k >= m)
      least == CHOOSE k \in 1..Len(roster) :
                 \A m \in 1..Len(roster) :
                   /\ roster[k].current_load <= roster[m].current_load
                   /\ (roster[k].current_load < roster[m].current_load \/ k <= m)
  IN  IF suitable = {} THEN roster[least].email ELSE roster[best].email

\* The fallback taking the lowest ratio instead of the lowest current_load.
select_assignee_fallback_ratio(roster, category) ==
  LET suitable == { k \in 1..Len(roster) :
                      /\ category \in roster[k].categories
                      /\ roster[k].current_load < roster[k].max_tickets }
      RatioLess(a, b) ==
        roster[a].current_load * roster[b].max_tickets
          < roster[b].current_load * roster[a].max_tickets
      best == CHOOSE k \in suitable :
                \A m \in suitable : ~RatioLess(m, k) /\ (RatioLess(k, m) \/ k <= m)
      least == CHOOSE k \in 1..Len(roster) :
                 \A m \in 1..Len(roster) : ~RatioLess(m, k) /\ (RatioLess(k, m) \/ k <= m)
  IN  IF suitable = {} THEN roster[least].email ELSE roster[best].email

\* The selection of assign_ticket on a roster given in dict order.  The ratios
\* current_load / max_tickets are compared exactly; the sort is stable and min
\* answers the first minimum, so the earliest of equal candidates is returned.
select_assignee(roster, category) ==
  LET suitable == { k \in 1..Len(roster) :
                      /\ category \in roster[k].categories
                      /\ roster[k].current_load < roster[k].max_tickets }
      RatioLess(a, b) ==
        roster[a].current_load * roster[b].max_tickets
          < roster[b].current_load * roster[a].max_tickets
      best == CHOOSE k \in suitable :
                \A m \in suitable : ~RatioLess(m, k) /\ (RatioLess(k, m) \/ k <= m)
      least == CHOOSE k \in 1..Len(roster) :
                 \A m \in 1..Len(roster) :
                   /\ roster[k].current_load <= roster[m].current_load
                   /\ (roster[k].current_load < roster[m].current_load \/ k <= m)
  IN  IF suitable = {} THEN roster[least].email ELSE roster[best].email

\* The priority, which assign_ticket reads, put to use: urgent tickets go to
\* the least loaded handler.
assign_ticket_by_priority(ticket) ==
  IF ticket.priority \in {Priority_CRITICAL, Priority_HIGH}
  THEN select_assignee(team_skills, "OTHER")
  ELSE select_assignee(team_skills, ticket.category)

assign_ticket(ticket) == select_assignee(team_skills, ticket.category)

-----------------------------------------------------------------------------
\* ServiceDeskAutomation.predict_resolution_time

base_times ==
  (<<"HARDWARE", "CRITICAL">> :> 120) @@ (<<"HARDWARE", "HIGH">> :> 180) @@
  (<<"HARDWARE", "MEDIUM">> :> 240) @@ (<<"HARDWARE", "LOW">> :> 480) @@
  (<<"SOFTWARE", "CRITICAL">> :> 60) @@ (<<"SOFTWARE", "HIGH">> :> 120) @@
  (<<"SOFTWARE", "MEDIUM">> :> 180) @@ (<<"SOFTWARE", "LOW">> :> 360) @@
  (<<"NETWORK", "CRITICAL">> :> 90) @@ (<<"NETWORK", "HIGH">> :> 150) @@
  (<<"NETWORK", "MEDIUM">> :> 240) @@ (<<"NETWORK", "LOW">> :> 480) @@
  (<<"ACCESS", "CRITICAL">> :> 30) @@ (<<"ACCESS", "HIGH">> :> 45) @@
  (<<"ACCESS", "MEDIUM">> :> 60) @@ (<<"ACCESS", "LOW">> :> 120) @@
  (<<"EMAIL", "CRITICAL">> :> 45) @@ (<<"EMAIL", "HIGH">> :> 90) @@
  (<<"EMAIL", "MEDIUM">> :> 120) @@ (<<"EMAIL", "LOW">> :> 240)

\* datetime.now().hour, the clock counting seconds from a local midnight
hour_of(t) == (t \div 3600) % 24

\* int(base_time * 1.5) and int(base_time * 0.8), exact on the table's values
predict_resolution_time(ticket, t) ==
  LET key == <<ticket.category, ticket.priority>>
      base_time == IF key \in DOMAIN base_times THEN base_times[key] ELSE 180
      current_hour == hour_of(t)
  IN  IF 9 <= current_hour /\ current_hour <= 17
      THEN (base_time * 15) \div 10
      ELSE (base_time * 8) \div 10

-----------------------------------------------------------------------------
\* Bounds of the model.

\* The clock: seconds from a local midnight; it starts at 16:00, moves in steps
\* of half an hour and stops at 17:00.
StartTime == 57600

TickStep == 1800

MaxTime == 61200

\* Fragments per input text of the pure text functions.
MaxFragments == 2

\* The requests of one behaviour, each served by one call of create_ticket.
Intakes == {"i1", "i2"}

-----------------------------------------------------------------------------
\* State.
\*   now        the clock (datetime.now(), and Redis's clock)
\*   cache      the Redis database: key -> [value, expire_at]
\*   cache_log  per key, the value and time of the latest SETEX (history)
\*   intake     per request, the position of create_ticket (pc: "idle" before the
\*              request, "ai" suspended in the AI call, "done" returned, "failed"
\*              ended by an exception) and its locals; steps lists the calls made,
\*              classifier_raised tells that classifier.predict raised, ai is the
\*              error the AI call ended with ("" when it answered), raised names
\*              the call whose exception ended create_ticket
\*   escalation the answer of the latest call of escalate_ticket (None before)
\*   fn_in, fn_out   argument and result of a pure function under test

VARIABLES now, cache, cache_log, intake, escalation, fn_in, fn_out

vars == <<now, cache, cache_log, intake, escalation, fn_in, fn_out>>

\* dict.get(k) and d[k] = v
Get(d, k) == IF k \in DOMAIN d THEN Some(d[k]) ELSE None

Put(d, k, v) == (k :> v) @@ d

IdleIntake ==
  [pc |-> "idle", request |-> None, ticket |-> None, response |-> None,
   steps |-> << >>, classifier_raised |-> FALSE, ai |-> None, raised |-> None]

-----------------------------------------------------------------------------
\* create_ticket

\* The new_ticket dict (the random id and user_email are carried along unread).
new_ticket(request, classification, t) ==
  [title |-> request.title,
   description |-> request.description,
   category |-> classification.category,
   priority |-> classification.priority,
   status |-> Status_NEW,
   created_at |-> t]

\* Auto-resolution attempted whatever the priority.
attempt_auto_resolution_ungated(ticket, classification, c, t) ==
  auto_resolve_ticket(ticket, c, t)

\* Priority.LOW left out of the gate.
attempt_auto_resolution_medium_only(ticket, classification, c, t) ==
  IF classification.priority \in {Priority_MEDIUM}
  THEN auto_resolve_ticket(ticket, c, t)
  ELSE [kind |-> "skipped", resolution |-> None, setex |-> << >>, steps |-> << >>]

\* "Attempt auto-resolution for low/medium priority tickets"
attempt_auto_resolution(ticket, classification, c, t) ==
  IF classification.priority \in {Priority_LOW, Priority_MEDIUM}
  THEN auto_resolve_ticket(ticket, c, t)
  ELSE [kind |-> "skipped", resolution |-> None, setex |-> << >>, steps |-> << >>]

\* The assignment made whether or not the ticket was resolved.
resolve_or_assign_unconditional(ticket, resolution) ==
  LET resolved == resolution # None /\ resolution[1] # ""
      t1 == IF resolved
            THEN Put(Put([ticket EXCEPT !.status = Status_RESOLVED],
                         "resolution", resolution[1]), "auto_resolved", 1)
            ELSE ticket
  IN  [Put(t1, "assignee", assign_ticket(t1)) EXCEPT !.status = Status_IN_PROGRESS]

\* if resolution: ...   if not resolution: ...
resolve_or_assign(ticket, resolution) ==
  LET resolved == resolution # None /\ resolution[1] # ""
      t1 == IF resolved
            THEN Put(Put([ticket EXCEPT !.status = Status_RESOLVED],
                         "resolution", resolution[1]), "auto_resolved", 1)
            ELSE ticket
  IN  IF ~resolved
      THEN [Put(t1, "assignee", assign_ticket(t1)) EXCEPT !.status = Status_IN_PROGRESS]
      ELSE t1

TicketResponse(ticket, estimated_time) ==
  [title |-> ticket.title,
   category |-> ticket.category,
   priority |-> ticket.priority,
   status |-> ticket.status,
   assignee |-> Get(ticket, "assignee"),
   resolution |-> Get(ticket, "resolution"),
   estimated_resolution_time |-> estimated_time]

\* The estimate computed only for a ticket that has been assigned.
finish_ticket_estimate_if_assigned(ticket, resolution, t) ==
  LET final == resolve_or_assign(ticket, resolution)
      estimated_time == predict_resolution_time(final, t)
  IN  IF "assignee" \in DOMAIN final
      THEN [ticket |-> final,
            response |-> TicketResponse(final, estimated_time),
            steps |-> <<"assign_ticket", "predict_resolution_time">>]
      ELSE [ticket |-> final, response |-> TicketResponse(final, 0), steps |-> << >>]

\* create_ticket from the result of auto-resolution to its return.
finish_ticket(ticket, resolution, t) ==
  LET final == resolve_or_assign(ticket, resolution)
      estimated_time == predict_resolution_time(final, t)
  IN  [ticket |-> final,
       response |-> TicketResponse(final, estimated_time),
       steps |-> (IF "assignee" \in DOMAIN final THEN <<"assign_ticket">> ELSE << >>)
                   \o <<"predict_resolution_time">>]

\* The SETEX commands of one step, run by Redis at time t, and their record in
\* the history.
SetexSteps(commands) == [k \in 1..Len(commands) |-> "cache_setex"]

RECURSIVE RunSetex(_, _, _)
RunSetex(c, commands, t) ==
  IF commands = << >> THEN c
  ELSE RunSetex(redis_setex(c, Head(commands).key, Head(commands).time,
                            Head(commands).value, t),
                Tail(commands), t)

RECURSIVE LogSetex(_, _, _)
LogSetex(log, commands, t) ==
  IF commands = << >> THEN log
  ELSE LogSetex((Head(commands).key :> [value |-> Head(commands).value,
                                        time |-> Head(commands).time, at |-> t]) @@ log,
                Tail(commands), t)

\* The requests are named in the order they arrive in.
ArrivesBefore(j, i) == <<j, i>> \in {<<"i1", "i2">>, <<"i2", "i3">>}

\* create_ticket from the request to its return, to the exception that ends it,
\* or to the await of the AI call.
create_ticket(i, request, predict) ==
  /\ intake[i].pc = "idle"
  /\ \A j \in DOMAIN intake : ArrivesBefore(j, i) => intake[j].pc # "idle"
  /\ LET classification == classify_ticket(request.title, request.description, predict)
         ticket == new_ticket(request, classification, now)
         r == attempt_auto_resolution(ticket, classification, cache, now)
         fin == finish_ticket(ticket, r.resolution, now)
     IN  IF classification.raised
         THEN /\ intake' = [intake EXCEPT ![i] =
                   [IdleIntake EXCEPT !.pc = "failed", !.request = Some(request),
                                      !.steps = <<"classify_ticket">>,
                                      !.classifier_raised = TRUE,
                                      !.raised = Some("classify_ticket")]]
              /\ UNCHANGED <<cache, cache_log>>
         ELSE IF r.kind = "ai"
         THEN /\ intake' = [intake EXCEPT ![i] =
                   [IdleIntake EXCEPT !.pc = "ai", !.request = Some(request),
                                      !.ticket = Some(ticket),
                                      !.steps = <<"classify_ticket">> \o r.steps]]
              /\ UNCHANGED <<cache, cache_log>>
         ELSE /\ intake' = [intake EXCEPT ![i] =
                   [IdleIntake EXCEPT !.pc = "done", !.request = Some(request),
                                      !.ticket = Some(fin.ticket),
                                      !.response = Some(fin.response),
                                      !.steps = <<"classify_ticket">> \o r.steps \o SetexSteps(r.setex)
                                                  \o fin.steps]]
              /\ cache' = RunSetex(cache, r.setex, now)
              /\ cache_log' = LogSetex(cache_log, r.setex, now)
  /\ UNCHANGED <<now, escalation, fn_in, fn_out>>

\* The AI call of a suspended create_ticket ends; create_ticket runs to its return.
ai_call_returns(i, outcome) ==
  /\ intake[i].pc = "ai"
  /\ LET ticket == intake[i].ticket[1]
         g == ai_resolution_of[outcome]
         r == auto_resolve_ticket_resume(ticket, g.value)
         fin == finish_ticket(ticket, r.resolution, now)
     IN  IF g.raised
         THEN /\ intake' = [intake EXCEPT ![i] =
                   [@ EXCEPT !.pc = "failed", !.ai = Some(outcome.error),
                             !.steps = @ \o <<"ai_return">>,
                             !.raised = Some("_generate_ai_resolution")]]
              /\ UNCHANGED <<cache, cache_log>>
         ELSE /\ intake' = [intake EXCEPT ![i] =
                   [@ EXCEPT !.pc = "done", !.ai = Some(outcome.error),
                             !.ticket = Some(fin.ticket),
                             !.response = Some(fin.response),
                             !.steps = @ \o r.steps \o SetexSteps(r.setex) \o fin.steps]]
              /\ cache' = RunSetex(cache, r.setex, now)
              /\ cache_log' = LogSetex(cache_log, r.setex, now)
  /\ UNCHANGED <<now, escalation, fn_in, fn_out>>

\* Time passes.
Tick ==
  /\ now + TickStep <= MaxTime
  /\ now' = now + TickStep
  /\ UNCHANGED <<cache, cache_log, intake, escalation, fn_in, fn_out>>

Init ==
  /\ now = StartTime
  /\ cache = << >>
  /\ cache_log = << >>
  /\ intake = [i \in Intakes |-> IdleIntake]
  /\ escalation = None
  /\ fn_in = << >>
  /\ fn_out = None

Next ==
  \/ \E i \in Intakes, request \in Requests, predict \in ClassifierOutcomes :
       create_ticket(i, request, predict)
  \/ \E i \in Intakes, outcome \in AiOutcomes : ai_call_returns(i, outcome)
  \/ Tick

Spec == Init /\ [][Next]_vars

-----------------------------------------------------------------------------
\* escalate_ticket: the answer is a constant but for the ticket_id it repeats;
\* no ticket is read and none is written.
escalate_ticket(ticket_id) ==
  /\ escalation' = Some([ticket_id |-> ticket_id,
                         status |-> "ESCALATED",
                         new_priority |-> "HIGH",
                         escalated_to |-> "senior.admin@company.com",
                         message |-> "Ticket escalated successfully"])
  /\ UNCHANGED <<now, cache, cache_log, intake, fn_in, fn_out>>

-----------------------------------------------------------------------------
\* The service under three requests that share one cache key, with its
\* escalation endpoint: the requests are those whose titles agree on their
\* first 50 characters, the classifier answers SOFTWARE or raises, the AI
\* capability answers with a usable text, declines, or times out.

DeskIntakes == {"i1", "i2", "i3"}

DeskTitle == "Shared calendar shows the wrong meeting times for everyone"

DeskRequests ==
  { r \in Requests : Take(Chars[r.title], 50) = Take(Chars[DeskTitle], 50) }

DeskClassifierOutcomes ==
  { o \in ClassifierOutcomes : o.raised \/ o.label = "SOFTWARE" }

DeskAiOutcomes ==
  { o \in AiOutcomes :
      \/ o.raised /\ o.error = "Timeout"
      \/ ~o.raised /\ o.content \in {"Restart the router and reconnect.", "None"} }

InitDesk ==
  /\ now = StartTime
  /\ cache = << >>
  /\ cache_log = << >>
  /\ intake = [i \in DeskIntakes |-> IdleIntake]
  /\ escalation = None
  /\ fn_in = << >>
  /\ fn_out = None

NextDesk ==
  \/ \E i \in DeskIntakes, request \in DeskRequests, predict \in DeskClassifierOutcomes :
       create_ticket(i, request, predict)
  \/ \E i \in DeskIntakes, outcome \in DeskAiOutcomes : ai_call_returns(i, outcome)
  \/ \E ticket_id \in DeskIntakes : escalate_ticket(ticket_id)
  \/ Tick

SpecDesk == InitDesk /\ [][NextDesk]_vars

\* The same service with the fairness its scheduling gives.  The code of a
\* request runs without a break from its arrival to the await of the AI call,
\* and from the end of that call to the return, so each stretch is one action
\* and the event loop owes nothing in between; that a request arrives and that
\* the awaited call ends is up to the environment: acreate is awaited with no
\* timeout of the caller (lines 300-308) and no step of the code ends the wait.
\* The clock advances.
FairDesk == SpecDesk /\ WF_vars(Tick)

-----------------------------------------------------------------------------
\* _determine_priority on its own: the text is built from fragments that are
\* keywords, parts of keywords and other words, in either case.

PriorityFragments ==
  { "URGENT ", "system is down", "load", "important", "cannot", " work", "Help",
    "err", "or ", "printer jam ", "As", "ap", "Quick", "ly", "soon, big problem " }

RECURSIVE Flatten(_)
Flatten(fragments) ==
  IF fragments = << >> THEN << >>
  ELSE Chars[Head(fragments)] \o Flatten(Tail(fragments))

TextsOf(fragments, n) ==
  { Flatten(q) : q \in UNION { [1..k -> fragments] : k \in 0..n } }

InitPriority ==
  /\ now = StartTime
  /\ cache = << >>
  /\ cache_log = << >>
  /\ intake = [i \in Intakes |-> IdleIntake]
  /\ escalation = None
  /\ fn_in \in TextsOf(PriorityFragments, MaxFragments)
  /\ fn_out = None

determine_priority_call ==
  /\ fn_out = None
  /\ fn_out' = Some(_determine_priority(fn_in))
  /\ UNCHANGED <<now, cache, cache_log, intake, escalation, fn_in>>

SpecPriority == InitPriority /\ [][determine_priority_call]_vars

-----------------------------------------------------------------------------
\* The selection of assign_ticket on its own, lines 354-367 run on rosters
\* other than the literal of lines 333-349 as well: up to MaxHandlers handlers
\* in any order, each with one of the skill sets of the literal and one of the
\* loads below (under, at and over capacity, equal ratios at different loads).

MaxHandlers == 2

\* The handler identifiers in their order as Python strings.
HandlerIds ==
  <<"amy@company.com", "bob.wilson@company.com", "jane.smith@company.com",
    "john.doe@company.com", "kim@company.com", "zed@company.com">>

RosterIds == {"amy@company.com", "kim@company.com", "zed@company.com"}

RosterSkills == { team_skills[k].categories : k \in 1..Len(team_skills) }

\* <<current_load, max_tickets>>
RosterLoads == { <<5, 10>>, <<3, 12>>, <<7, 8>>, <<2, 4>>, <<4, 4>>, <<9, 8>> }

RosterHandlers ==
  { [email |-> e, categories |-> c, max_tickets |-> l[2], current_load |-> l[1]] :
      e \in RosterIds, c \in RosterSkills, l \in RosterLoads }

Rosters ==
  { r \in UNION { [1..n -> RosterHandlers] : n \in 1..MaxHandlers } :
      \A a, b \in 1..Len(r) : a # b => r[a].email # r[b].email }

AssignCategories == {"NETWORK", "SOFTWARE", "OTHER"}

InitAssign ==
  /\ now = StartTime
  /\ cache = << >>
  /\ cache_log = << >>
  /\ intake = [i \in Intakes |-> IdleIntake]
  /\ escalation = None
  /\ fn_in \in { [roster |-> r, category |-> c] :
                   r \in Rosters \cup {team_skills}, c \in AssignCategories }
  /\ fn_out = None

assign_ticket_call ==
  /\ fn_out = None
  /\ fn_out' = Some(select_assignee(fn_in.roster, fn_in.category))
  /\ UNCHANGED <<now, cache, cache_log, intake, escalation, fn_in>>

SpecAssign == InitAssign /\ [][assign_ticket_call]_vars

-----------------------------------------------------------------------------
\* predict_resolution_time on its own: every category and priority, at the
\* first and the last second of every hour of the day.

EstimateTimes == { h * 3600 + sec : h \in 0..23, sec \in {0, 3599} }

InitEstimate ==
  /\ now = StartTime
  /\ cache = << >>
  /\ cache_log = << >>
  /\ intake = [i \in Intakes |-> IdleIntake]
  /\ escalation = None
  /\ fn_in \in [category : Category, priority : Priority, t : EstimateTimes]
  /\ fn_out = None

predict_resolution_time_call ==
  /\ fn_out = None
  /\ fn_out' = Some(predict_resolution_time(fn_in, fn_in.t))
  /\ UNCHANGED <<now, cache, cache_log, intake, escalation, fn_in>>

SpecEstimate == InitEstimate /\ [][predict_resolution_time_call]_vars

-----------------------------------------------------------------------------
\* The knowledge-base check of auto_resolve_ticket on its own: titles of one
\* fragment and descriptions of up to MaxFragments fragments, among them
\* keywords in upper and lower case, keywords of several entries in one text,
\* and keywords cut in two by the end of the title or of a fragment.

KbTitles == { Chars[f] : f \in {"Help", "pass", "crash", "stopped"} }

KbFragments == {"word", "WiFi", "pass", "crash", "working", "not res", "ponding"}

InitKb ==
  /\ now = StartTime
  /\ cache = << >>
  /\ cache_log = << >>
  /\ intake = [i \in Intakes |-> IdleIntake]
  /\ escalation = None
  /\ fn_in \in [title : KbTitles, description : TextsOf(KbFragments, MaxFragments)]
  /\ fn_out = None

\* ticket_text = f"{ticket['title']} {ticket['description']}".lower(), then the loop.
check_knowledge_base_call ==
  /\ fn_out = None
  /\ fn_out' = Some(check_knowledge_base(
                      Lower(fn_in.title \o Chars[" "] \o fn_in.description)))
  /\ UNCHANGED <<now, cache, cache_log, intake, escalation, fn_in>>

SpecKb == InitKb /\ [][check_knowledge_base_call]_vars

-----------------------------------------------------------------------------
\* _generate_ai_resolution on its own: every ticket text and category, and
\* every outcome of the call of the capability.

InitAi ==
  /\ now = StartTime
  /\ cache = << >>
  /\ cache_log = << >>
  /\ intake = [i \in Intakes |-> IdleIntake]
  /\ escalation = None
  /\ fn_in \in [ticket : [title : {r.title : r \in Requests},
                          description : {r.description : r \in Requests},
                          category : Category],
                outcome : AiOutcomes]
  /\ fn_out = None

generate_ai_resolution_call ==
  /\ fn_out = None
  /\ fn_out' = Some(_generate_ai_resolution(fn_in.outcome))
  /\ UNCHANGED <<now, cache, cache_log, intake, escalation, fn_in>>

SpecAi == InitAi /\ [][generate_ai_resolution_call]_vars

-----------------------------------------------------------------------------
\* Properties.

\* The keyword sets of the tiers, and "the text has a match in the set": some
\* keyword of the set is a slice of the lower-cased text.
TierOrder == <<Priority_CRITICAL, Priority_HIGH, Priority_MEDIUM>>

TierKeywords(tier) ==
  CASE tier = Priority_CRITICAL ->
         {"urgent", "critical", "emergency", "down", "crashed", "broken", "asap"}
    [] tier = Priority_HIGH -> {"important", "quickly", "soon", "cannot work", "blocked"}
    [] tier = Priority_MEDIUM -> {"issue", "problem", "error", "help"}

TierMatches(tier, text) ==
  \E w \in TierKeywords(tier) :
    \E a \in 1..Len(text) : \E b \in a..Len(text) : SubSeq(Lower(text), a, b) = Chars[w]

\* C1: _determine_priority returns the first tier, in the order CRITICAL, HIGH,
\* MEDIUM, whose keyword set has a match in the lower-cased text, and LOW when
\* no tier matches; a text with a CRITICAL keyword gets CRITICAL whatever HIGH
\* and MEDIUM keywords it also contains.
C1_TierPrecedence ==
  fn_out # None =>
    /\ \A k \in 1..Len(TierOrder) :
         (TierMatches(TierOrder[k], fn_in)
            /\ \A m \in 1..(k - 1) : ~TierMatches(TierOrder[m], fn_in))
           => fn_out[1] = TierOrder[k]
    /\ (\A k \in 1..Len(TierOrder) : ~TierMatches(TierOrder[k], fn_in))
         => fn_out[1] = Priority_LOW
    /\ TierMatches(Priority_CRITICAL, fn_in) => fn_out[1] = Priority_CRITICAL

\* A text with a CRITICAL, a HIGH and a MEDIUM keyword has been classified.
C1_Witness ==
  /\ fn_out = Some(Priority_CRITICAL)
  /\ TierMatches(Priority_HIGH, fn_in)
  /\ TierMatches(Priority_MEDIUM, fn_in)

-----------------------------------------------------------------------------
\* Properties of the intake.

Urgent == {"HIGH", "CRITICAL"}

Made(i, step) == \E k \in 1..Len(intake[i].steps) : intake[i].steps[k] = step

KeyOf(i) == cache_key(intake[i].ticket[1].category, intake[i].ticket[1].title)

AiFailures == {Some("APIError"), Some("Timeout")}

\* The calls of a create_ticket that returned the cached resolution.
CacheHitSteps == <<"classify_ticket", "cache_get", "predict_resolution_time">>

\* C2: in the intake of a ticket of priority HIGH or CRITICAL the AI fallback is
\* never invoked.
C2_NoAiForUrgent ==
  \A i \in Intakes :
    (intake[i].ticket # None /\ intake[i].ticket[1].priority \in Urgent)
      => /\ intake[i].pc # "ai"
         /\ intake[i].ai = None
         /\ ~Made(i, "ai_call")

\* A CRITICAL or HIGH ticket that the knowledge base does not match has left
\* the intake.
C2_Witness ==
  \E i \in Intakes :
    /\ intake[i].pc = "done"
    /\ intake[i].ticket[1].priority \in Urgent
    /\ kb_of[intake[i].request[1]] = None
    /\ Made(i, "assign_ticket")

\* C3, as claimed: every intake ends RESOLVED or IN_PROGRESS with an assignee; it
\* never ends by rejecting the ticket.
C3_AlwaysDeterminate ==
  \A i \in Intakes :
    /\ intake[i].pc # "failed"
    /\ intake[i].pc = "done" =>
         \/ intake[i].ticket[1].status = "RESOLVED"
         \/ /\ intake[i].ticket[1].status = "IN_PROGRESS"
            /\ intake[i].response[1].assignee # None

\* C4: a ticket that has left the intake never has both a resolution and an
\* assignee: auto-resolved means no assignee, assigned means no resolution.
C4_ResolutionOrAssignee ==
  \A i \in Intakes :
    intake[i].pc = "done" =>
      LET t == intake[i].ticket[1]
          r == intake[i].response[1]
      IN  /\ ~("resolution" \in DOMAIN t /\ "assignee" \in DOMAIN t)
          /\ ~(r.resolution # None /\ r.assignee # None)
          /\ "auto_resolved" \in DOMAIN t => r.assignee = None
          /\ r.assignee # None => (r.resolution = None /\ "auto_resolved" \notin DOMAIN t)

\* One ticket has left the intake auto-resolved and another one assigned.
C4_Witness ==
  \E i, j \in Intakes :
    /\ intake[i].pc = "done" /\ intake[j].pc = "done"
    /\ intake[i].response[1].resolution # None /\ intake[i].response[1].assignee = None
    /\ intake[j].response[1].assignee # None /\ intake[j].response[1].resolution = None

\* C5, as claimed: an auto-resolved ticket leaves the intake RESOLVED with a
\* non-empty resolution, auto_resolved set and resolved_at set; auto_resolved
\* implies a non-empty resolution.
C5_ResolvedFields ==
  \A i \in Intakes :
    intake[i].pc = "done" =>
      LET t == intake[i].ticket[1]
      IN  /\ t.status = "RESOLVED" =>
               /\ Get(t, "resolution") \notin {None, Some("")}
               /\ Get(t, "auto_resolved") = Some(1)
               /\ Get(t, "resolved_at") # None
          /\ Get(t, "auto_resolved") = Some(1) =>
               Get(t, "resolution") \notin {None, Some("")}

\* C6, as claimed: when the classifier fails the intake goes on with the
\* category OTHER.
C6_ClassifierFailureDefaultsToOther ==
  \A i \in Intakes :
    intake[i].classifier_raised =>
      /\ intake[i].pc \in {"ai", "done"}
      /\ intake[i].ticket # None
      /\ intake[i].ticket[1].category = "OTHER"

\* C7: a failure of the AI capability never ends create_ticket with an
\* exception; the ticket leaves the intake unresolved and assigned, and the step
\* that handles the failure leaves the cache as it was.
C7_State ==
  \A i \in Intakes :
    /\ intake[i].raised # Some("_generate_ai_resolution")
    /\ intake[i].ai \in AiFailures =>
         /\ intake[i].pc = "done"
         /\ intake[i].ticket[1].status = "IN_PROGRESS"
         /\ intake[i].response[1].assignee # None
         /\ intake[i].response[1].resolution = None

C7_Step ==
  \A i \in Intakes :
    (intake[i].pc = "ai" /\ intake'[i].ai \in AiFailures) => cache' = cache

C7_AiFailureIsNone == []C7_State /\ [][C7_Step]_vars

\* An AI call has ended in a timeout and its ticket has been assigned.
C7_Witness ==
  \E i \in Intakes :
    /\ intake[i].pc = "done"
    /\ intake[i].ai = Some("Timeout")
    /\ intake[i].response[1].assignee # None

\* C8: while the time to live of the latest SETEX on a key has not elapsed, GET
\* on the key and the decoding of its answer give the value that was set; the
\* resolution a create_ticket takes from the cache is that value.
C8_State ==
  \A key \in DOMAIN cache_log :
    now < cache_log[key].at + cache_log[key].time =>
      LET got == redis_get(cache, key, now)
      IN  got # None /\ decode_utf8(got[1]) = cache_log[key].value

C8_Step ==
  \A i \in Intakes :
    (intake[i].pc = "idle" /\ intake'[i].steps = CacheHitSteps) =>
      LET t == intake'[i].ticket[1]
          key == cache_key(t.category, t.title)
      IN  key \in DOMAIN cache_log /\ t.resolution = cache_log[key].value

C8_PutThenGet == []C8_State /\ [][C8_Step]_vars

\* A request has been answered from the cache at a later time than the entry
\* was set.
C8_Witness ==
  \E i \in Intakes :
    /\ intake[i].steps = CacheHitSteps
    /\ KeyOf(i) \in DOMAIN cache_log
    /\ cache_log[KeyOf(i)].at < intake[i].ticket[1].created_at
    /\ intake[i].ticket[1].resolution = cache_log[KeyOf(i)].value

\* C9: GET never answers for a key whose latest SETEX is an hour old or older,
\* and a create_ticket never takes a resolution from an entry that old.
C9_State ==
  \A key \in DOMAIN cache :
    redis_get(cache, key, now) # None =>
      key \in DOMAIN cache_log /\ now < cache_log[key].at + 3600

C9_Step ==
  \A i \in Intakes :
    (intake[i].pc = "idle" /\ intake'[i].steps = CacheHitSteps) =>
      LET t == intake'[i].ticket[1]
          key == cache_key(t.category, t.title)
      IN  key \in DOMAIN cache_log /\ now < cache_log[key].at + 3600

C9_NoStaleValue == []C9_State /\ [][C9_Step]_vars

\* A request whose key was set an hour before it arrived has missed the cache
\* and consulted the knowledge base.
C9_Witness ==
  \E i, j \in Intakes :
    /\ intake[i].pc = "done" /\ intake[j].pc = "done"
    /\ Made(i, "cache_setex")
    /\ KeyOf(i) = KeyOf(j)
    /\ intake[j].ticket[1].created_at >= intake[i].ticket[1].created_at + 3600
    /\ Made(j, "cache_get") /\ Made(j, "knowledge_base")

\* C10, as claimed: a HIGH or CRITICAL ticket has the cache and the knowledge
\* base consulted, and is resolved by the knowledge-base entry it matches.
C10_UrgentStillResolvedByKb ==
  \A i \in Intakes :
    (intake[i].pc = "done" /\ intake[i].ticket[1].priority \in Urgent) =>
      /\ Made(i, "cache_get")
      /\ kb_of[intake[i].request[1]] # None =>
           /\ intake[i].ticket[1].status = "RESOLVED"
           /\ intake[i].response[1].resolution # None

\* C10, amended: the intake of a HIGH or CRITICAL ticket consults neither the
\* cache nor the knowledge base nor the AI fallback and writes nothing to the
\* cache; the ticket is routed to a handler, also when its key is cached or
\* its text matches a knowledge-base entry.
C10_UrgentSkipsAutoResolution ==
  \A i \in Intakes :
    (intake[i].ticket # None /\ intake[i].ticket[1].priority \in Urgent) =>
      /\ intake[i].pc = "done"
      /\ ~Made(i, "cache_get") /\ ~Made(i, "knowledge_base")
      /\ ~Made(i, "ai_call") /\ ~Made(i, "cache_setex")
      /\ intake[i].ticket[1].status = "IN_PROGRESS"
      /\ intake[i].response[1].assignee # None
      /\ intake[i].response[1].resolution = None

\* A HIGH ticket that matches a knowledge-base entry, and whose key was set in
\* the cache within the hour before it arrived, has been routed to a handler.
C10_Witness ==
  \E i \in Intakes :
    /\ intake[i].pc = "done"
    /\ intake[i].ticket[1].priority \in Urgent
    /\ kb_of[intake[i].request[1]] # None
    /\ KeyOf(i) \in DOMAIN cache_log
    /\ cache_log[KeyOf(i)].at < intake[i].ticket[1].created_at
    /\ intake[i].ticket[1].created_at < cache_log[KeyOf(i)].at + 3600
    /\ intake[i].ticket[1].status = "IN_PROGRESS"

-----------------------------------------------------------------------------
\* Properties of the write-back.

AutoResolved == {Priority_LOW, Priority_MEDIUM}

\* The step in which create_ticket of request j starts, a ticket being made.
Starts(j) == intake[j].pc = "idle" /\ intake'[j].ticket # None

KeyOfNext(j) == cache_key(intake'[j].ticket[1].category, intake'[j].ticket[1].title)

\* A create_ticket that resolves its ticket from the knowledge base or the AI
\* fallback leaves the resolution in the cache under the ticket's key, with a
\* time to live of 3600 from the time of the write.
C11_WriteBack ==
  \A i \in DOMAIN intake :
    (/\ intake[i].pc \in {"idle", "ai"}
     /\ intake'[i].pc = "done"
     /\ intake'[i].ticket[1].status = "RESOLVED"
     /\ intake'[i].steps # CacheHitSteps) =>
      LET t == intake'[i].ticket[1]
          key == KeyOfNext(i)
      IN  /\ key \in DOMAIN cache_log'
          /\ cache_log'[key] = [value |-> t.resolution, time |-> 3600, at |-> now]
          /\ cache'[key] = [value |-> Encoded[t.resolution], expire_at |-> now + 3600]

\* A LOW or MEDIUM request that starts before the time to live of the latest
\* write under its key has elapsed returns the resolution of that write, with
\* no call of the knowledge base or of the AI fallback.
C11_LaterHit ==
  \A j \in DOMAIN intake :
    (/\ Starts(j)
     /\ intake'[j].ticket[1].priority \in AutoResolved
     /\ KeyOfNext(j) \in DOMAIN cache_log
     /\ now < cache_log[KeyOfNext(j)].at + 3600) =>
      /\ intake'[j].pc = "done"
      /\ intake'[j].steps = CacheHitSteps
      /\ intake'[j].ticket[1].resolution = cache_log[KeyOfNext(j)].value

\* As claimed: the later request returns the resolution of every earlier
\* create_ticket that wrote under its key less than 3600 before.
C11_SameAsEveryWriter ==
  \A i, j \in DOMAIN intake :
    (/\ intake[i].pc = "done" /\ Made(i, "cache_setex")
     /\ Starts(j)
     /\ intake'[j].ticket[1].priority \in AutoResolved
     /\ KeyOfNext(j) = KeyOf(i)
     /\ now < intake[i].ticket[1].created_at + 3600) =>
      /\ intake'[j].steps = CacheHitSteps
      /\ intake'[j].ticket[1].resolution = intake[i].ticket[1].resolution

\* C11, as claimed: after a create_ticket resolved by the knowledge base or the
\* AI fallback, its resolution is in the cache under the ticket's key with the
\* fixed time to live, and every later request with that key and a priority
\* that reaches auto-resolution, started before the time to live elapses,
\* returns that same resolution without the knowledge base or the AI fallback.
C11_LaterIntakeSameResolution ==
  [][C11_WriteBack /\ C11_SameAsEveryWriter]_vars

\* C11, amended: the resolution is written back as claimed, and the later
\* request returns, without the knowledge base or the AI fallback, the
\* resolution of the latest write under its key: that of the earlier
\* create_ticket unless another one with the same key, which had missed the
\* cache before, wrote its own resolution afterwards.
C11_LaterIntakeLatestWrite ==
  [][C11_WriteBack /\ C11_LaterHit]_vars

\* A request was answered from the cache with another resolution than the one
\* a create_ticket with the same key had written less than 3600 before.
C11_Witness ==
  \E i, k \in DOMAIN intake :
    /\ intake[i].pc = "done" /\ Made(i, "cache_setex")
    /\ intake[k].steps = CacheHitSteps
    /\ KeyOf(k) = KeyOf(i)
    /\ intake[k].ticket[1].created_at < intake[i].ticket[1].created_at + 3600
    /\ intake[k].ticket[1].resolution = cache_log[KeyOf(k)].value
    /\ intake[k].ticket[1].resolution # intake[i].ticket[1].resolution

-----------------------------------------------------------------------------
\* Properties of the assignment, on the roster and category of fn_in.

\* The handlers (positions in the roster) skilled in the category whose current
\* load is strictly below their maximum.
Candidates(roster, category) ==
  { k \in 1..Len(roster) :
      /\ category \in roster[k].categories
      /\ roster[k].current_load < roster[k].max_tickets }

\* current_load / max_tickets of a is at most that of b (max_tickets > 0).
RatioAtMost(roster, a, b) ==
  roster[a].current_load * roster[b].max_tickets
    <= roster[b].current_load * roster[a].max_tickets

LowestRatio(roster, category) ==
  { k \in Candidates(roster, category) :
      \A m \in Candidates(roster, category) : RatioAtMost(roster, k, m) }

IdRank(email) == CHOOSE k \in 1..Len(HandlerIds) : HandlerIds[k] = email

Skilled(roster, category) == { k \in 1..Len(roster) : category \in roster[k].categories }

\* C12: when some handler is skilled in the category and strictly below its
\* maximum, assign_ticket returns such a handler, one whose ratio
\* current_load / max_tickets is the lowest among them (3/12 before 5/10).
C12_LowestRatioCandidate ==
  (fn_out # None /\ Candidates(fn_in.roster, fn_in.category) # {}) =>
    \E k \in LowestRatio(fn_in.roster, fn_in.category) : fn_in.roster[k].email = fn_out[1]

\* A handler at 5/10 listed before a handler at 3/12, both skilled: the second
\* one was returned.
C12_Witness ==
  /\ fn_out # None
  /\ \E a, b \in Candidates(fn_in.roster, fn_in.category) :
       /\ a < b
       /\ fn_in.roster[a].current_load = 5 /\ fn_in.roster[a].max_tickets = 10
       /\ fn_in.roster[b].current_load = 3 /\ fn_in.roster[b].max_tickets = 12
       /\ fn_out[1] = fn_in.roster[b].email

C14_FallbackLeastLoaded ==
  fn_out # None =>
    /\ \E k \in 1..Len(fn_in.roster) : fn_in.roster[k].email = fn_out[1]
    /\ Candidates(fn_in.roster, fn_in.category) = {} =>
         \E k \in 1..Len(fn_in.roster) :
           /\ fn_in.roster[k].email = fn_out[1]
           /\ \A m \in 1..Len(fn_in.roster) :
                fn_in.roster[k].current_load <= fn_in.roster[m].current_load

\* Every skilled handler is at or over its maximum, and a handler that is not
\* skilled was returned.
C14_Witness ==
  /\ fn_out # None
  /\ Candidates(fn_in.roster, fn_in.category) = {}
  /\ Skilled(fn_in.roster, fn_in.category) # {}
  /\ \E k \in 1..Len(fn_in.roster) \ Skilled(fn_in.roster, fn_in.category) :
       fn_in.roster[k].email = fn_out[1]

-----------------------------------------------------------------------------
\* Properties of the handlers' capacity.

\* The tickets the requests have assigned to the handler at position k of the
\* roster as a candidate, that is, in a category the handler is skilled in.
AssignedAsCandidate(k) ==
  { i \in DOMAIN intake :
      /\ intake[i].pc = "done"
      /\ intake[i].response[1].assignee = Some(team_skills[k].email)
      /\ intake[i].ticket[1].category \in team_skills[k].categories }

\* C15, as claimed: an assignment takes one unit of the handler's capacity, so
\* the tickets a handler holds, its current load and those assigned to it as a
\* candidate, never exceed its max_tickets, whatever the interleaving of the
\* requests.
C15_CapacityReserved ==
  \A k \in 1..Len(team_skills) :
    team_skills[k].current_load + Cardinality(AssignedAsCandidate(k))
      <= team_skills[k].max_tickets

-----------------------------------------------------------------------------
\* Properties of termination.

\* C16, as claimed: every create_ticket that awaits the AI call goes on to its
\* return, the ticket assigned when the call has not answered.
C16_EveryIntakeCompletes ==
  \A i \in DeskIntakes : (intake[i].pc = "ai") ~> (intake[i].pc = "done")

-----------------------------------------------------------------------------
\* Properties of the estimate, on the category, priority and time of fn_in.

\* The base minutes as the claim gives them: the table's entry, 180 without one.
ClaimedBase(category, priority) ==
  IF <<category, priority>> \in DOMAIN base_times
  THEN base_times[<<category, priority>>] ELSE 180

\* C17, as claimed: the estimate is the base minutes times 1.5 when the local
\* hour h satisfies 9 <= h < 17 and times 0.8 at every other hour, h = 17
\* included, truncated to an integer.
C17_EstimateHalfOpenHours ==
  fn_out # None =>
    LET h == (fn_in.t \div 3600) % 24
        base == ClaimedBase(fn_in.category, fn_in.priority)
    IN  fn_out[1] = IF 9 <= h /\ h < 17 THEN (base * 3) \div 2 ELSE (base * 4) \div 5

-----------------------------------------------------------------------------
\* Properties of the ticket's status.

StatusOf(d) == IF d.ticket = None THEN Status_NEW ELSE d.ticket[1].status

PriorityRank(p) ==
  CASE p = Priority_LOW -> 1 [] p = Priority_MEDIUM -> 2
    [] p = Priority_HIGH -> 3 [] p = Priority_CRITICAL -> 4

\* A ticket enters RESOLVED or IN_PROGRESS from NEW only (a ticket is NEW from
\* its creation inside create_ticket on).
C18_FromNew ==
  \A i \in DOMAIN intake :
    (StatusOf(intake'[i]) \in {Status_RESOLVED, Status_IN_PROGRESS}
       /\ StatusOf(intake'[i]) # StatusOf(intake[i]))
      => StatusOf(intake[i]) = Status_NEW

\* No step changes the status of a CLOSED ticket.
C18_ClosedTerminal ==
  \A i \in DOMAIN intake :
    StatusOf(intake[i]) = Status_CLOSED => StatusOf(intake'[i]) = Status_CLOSED

\* The step in which escalate_ticket answers for the ticket of request i.
Escalates(i) == escalation' # escalation /\ escalation'[1].ticket_id = i

\* The escalation of a ticket that is not CLOSED makes it ESCALATED, raises its
\* priority (CRITICAL stays) and routes it to the handler the answer names.
C18_Escalation ==
  \A i \in DOMAIN intake :
    (Escalates(i) /\ intake[i].ticket # None /\ StatusOf(intake[i]) # Status_CLOSED) =>
      LET before == intake[i].ticket[1]
          after == intake'[i].ticket[1]
      IN  /\ after.status = Status_ESCALATED
          /\ \/ PriorityRank(after.priority) > PriorityRank(before.priority)
             \/ before.priority = Priority_CRITICAL /\ after.priority = Priority_CRITICAL
          /\ Get(after, "assignee") = Some(escalation'[1].escalated_to)

\* C18, as claimed: RESOLVED and IN_PROGRESS are entered from NEW only, CLOSED
\* is terminal, and the escalation action takes a ticket from every other
\* status to ESCALATED, raising its priority and re-routing it.
C18_StatusMachine == [][C18_FromNew /\ C18_ClosedTerminal /\ C18_Escalation]_vars

-----------------------------------------------------------------------------
\* The end-to-end scenarios.

ForgotPassword == [title |-> "Forgot my password", description |-> "locked out, need reset"]

VpnNotConnecting ==
  [title |-> "VPN not connecting",
   description |-> "cannot connect to VPN from home, getting error"]

\* The step in which create_ticket serves the request, the classifier having
\* answered with a category.
Serves(i, request) ==
  /\ intake[i].pc = "idle"
  /\ intake'[i].request = Some(request)
  /\ ~intake'[i].classifier_raised

\* C19: from an empty cache and for every category the classifier answers, the
\* ticket "Forgot my password" / "locked out, need reset" gets the priority
\* LOW, is matched by the PASSWORD_RESET entry of the knowledge base and leaves
\* create_ticket RESOLVED, auto_resolved, with the PASSWORD_RESET text as its
\* resolution and without an assignee.
C19_Step ==
  \A i \in DOMAIN intake :
    (Serves(i, ForgotPassword) /\ cache = << >>) =>
      /\ intake'[i].pc = "done"
      /\ Made(i, "knowledge_base")' /\ ~Made(i, "ai_call")'
      /\ LET t == intake'[i].ticket[1]
             r == intake'[i].response[1]
         IN  /\ t.priority = Priority_LOW /\ r.priority = Priority_LOW
             /\ t.status = Status_RESOLVED /\ r.status = Status_RESOLVED
             /\ Get(t, "auto_resolved") = Some(1)
             /\ Get(t, "resolution") = Some(PASSWORD_RESET_resolution)
             /\ r.resolution = Some(PASSWORD_RESET_resolution)
             /\ Get(t, "assignee") = None /\ r.assignee = None

C19_ForgotPasswordResolved == [][C19_Step]_vars

\* The ticket, classified HARDWARE, has been resolved by the knowledge base
\* with the PASSWORD_RESET text.
C19_Witness ==
  \E i \in DOMAIN intake :
    /\ intake[i].pc = "done"
    /\ intake[i].request = Some(ForgotPassword)
    /\ intake[i].ticket[1].category = "HARDWARE"
    /\ Made(i, "knowledge_base")
    /\ intake[i].response[1].resolution = Some(PASSWORD_RESET_resolution)
    /\ intake[i].response[1].assignee = None

\* C20, as claimed: the ticket "VPN not connecting" / "cannot connect to VPN
\* from home, getting error", classified NETWORK, gets the priority HIGH; the
\* AI fallback is skipped, the knowledge base is checked, and the ticket leaves
\* create_ticket resolved by the knowledge base or assigned to a handler
\* skilled in NETWORK.
C20_VpnHighPriority ==
  \A i \in DOMAIN intake :
    (intake[i].request = Some(VpnNotConnecting) /\ intake[i].ticket # None
       /\ intake[i].ticket[1].category = "NETWORK") =>
      /\ intake[i].pc = "done"
      /\ intake[i].ticket[1].priority = Priority_HIGH
      /\ ~Made(i, "ai_call")
      /\ \/ intake[i].ticket[1].status = Status_RESOLVED
         \/ \E k \in Skilled(team_skills, "NETWORK") :
              intake[i].response[1].assignee = Some(team_skills[k].email)

\* C20, amended: the ticket gets the priority MEDIUM, so auto-resolution runs:
\* with a live entry under its key in the cache it returns that entry's
\* resolution; otherwise the knowledge base is checked, the WIFI_CONNECTION
\* entry matches, and its text is the resolution and is written to the cache.
\* Either way the ticket leaves create_ticket RESOLVED, with no call of the AI
\* fallback and no assignee.
C20_Step ==
  \A i \in DOMAIN intake :
    (Serves(i, VpnNotConnecting) /\ intake'[i].ticket # None
       /\ intake'[i].ticket[1].category = "NETWORK") =>
      LET t == intake'[i].ticket[1]
          r == intake'[i].response[1]
          cached == redis_get(cache, KeyOfNext(i), now)
      IN  /\ intake'[i].pc = "done"
          /\ t.priority = Priority_MEDIUM
          /\ t.status = Status_RESOLVED /\ Get(t, "auto_resolved") = Some(1)
          /\ ~Made(i, "ai_call")'
          /\ Get(t, "assignee") = None /\ r.assignee = None
          /\ r.resolution = Some(t.resolution)
          /\ IF cached # None
             THEN /\ intake'[i].steps = CacheHitSteps
                  /\ t.resolution = decode_utf8(cached[1])
             ELSE /\ Made(i, "knowledge_base")'
                  /\ t.resolution = WIFI_CONNECTION_resolution
                  /\ redis_get(cache', KeyOfNext(i), now)
                       = Some(Encoded[WIFI_CONNECTION_resolution])

C20_VpnMediumResolved == [][C20_Step]_vars

\* The ticket, classified NETWORK and of priority MEDIUM, has been resolved by
\* the knowledge base with the WIFI_CONNECTION text.
C20_Witness ==
  \E i \in DOMAIN intake :
    /\ intake[i].pc = "done"
    /\ intake[i].request = Some(VpnNotConnecting)
    /\ intake[i].ticket[1].category = "NETWORK"
    /\ intake[i].ticket[1].priority = Priority_MEDIUM
    /\ Made(i, "knowledge_base")
    /\ intake[i].response[1].resolution = Some(WIFI_CONNECTION_resolution)

-----------------------------------------------------------------------------
\* Properties of the order of the sources in auto_resolve_ticket.

\* C21: a create_ticket whose ticket has the priority LOW or MEDIUM asks the
\* cache first.  If the cache answers, the ticket takes the cached resolution
\* and neither the knowledge base nor the AI fallback is consulted, whatever
\* the knowledge base would have said.  If the cache misses, the knowledge base
\* is evaluated next; if it matches, the ticket takes its resolution and the AI
\* fallback is not called.  The AI fallback is called only after both misses.
C21_Step ==
  \A j \in DOMAIN intake :
    (Starts(j) /\ intake'[j].ticket[1].priority \in AutoResolved) =>
      LET t == intake'[j].ticket[1]
          s == intake'[j].steps
          hit == redis_get(cache, KeyOfNext(j), now)
          kb == kb_of[intake'[j].request[1]]
      IN  /\ Len(s) >= 2 /\ s[1] = "classify_ticket" /\ s[2] = "cache_get"
          /\ hit # None =>
               /\ s = CacheHitSteps
               /\ Get(t, "resolution") = Some(decode_utf8(hit[1]))
          /\ (hit = None /\ kb # None) =>
               /\ Len(s) >= 3 /\ s[3] = "knowledge_base"
               /\ ~Made(j, "ai_call")'
               /\ Get(t, "resolution") = kb
          /\ (hit = None /\ kb = None) =>
               /\ s = <<"classify_ticket", "cache_get", "knowledge_base", "ai_call">>
               /\ intake'[j].pc = "ai"

C21_CacheThenKbThenAi == [][C21_Step]_vars

\* One ticket went through the three sources and was resolved by the AI
\* fallback; a later one with its key was answered from the cache although the
\* knowledge base has another resolution for its text.
C21_Witness ==
  \E i, j \in DOMAIN intake :
    /\ intake[i].pc = "done"
    /\ Made(i, "cache_get") /\ Made(i, "knowledge_base") /\ Made(i, "ai_call")
    /\ intake[i].ticket[1].status = Status_RESOLVED
    /\ intake[j].steps = CacheHitSteps
    /\ KeyOf(j) = KeyOf(i)
    /\ kb_of[intake[j].request[1]] # None
    /\ kb_of[intake[j].request[1]] # Some(intake[j].ticket[1].resolution)

-----------------------------------------------------------------------------
\* Properties of the knowledge-base check.

KbOrder == <<"PASSWORD_RESET", "WIFI_CONNECTION", "SOFTWARE_CRASH">>

KbKeywords(entry) ==
  CASE entry = "PASSWORD_RESET" -> {"password", "reset", "forgot", "locked"}
    [] entry = "WIFI_CONNECTION" -> {"wifi", "wireless", "connect", "network"}
    [] entry = "SOFTWARE_CRASH" -> {"crash", "error", "stopped working", "not responding"}

KbResolution(entry) ==
  CASE entry = "PASSWORD_RESET" -> PASSWORD_RESET_resolution
    [] entry = "WIFI_CONNECTION" -> WIFI_CONNECTION_resolution
    [] entry = "SOFTWARE_CRASH" -> SOFTWARE_CRASH_resolution

\* The text of a ticket: its title, one space, its description.
TicketText(ticket) == ticket.title \o <<" ">> \o ticket.description

SameLetter(c, d) ==
  (IF c \in DOMAIN LowerCase THEN LowerCase[c] ELSE c)
    = (IF d \in DOMAIN LowerCase THEN LowerCase[d] ELSE d)

\* The word occurs in the text, letter case apart.
OccursIn(word, text) ==
  \E a \in 1..(Len(text) - Len(word) + 1) :
    \A n \in 1..Len(word) : SameLetter(text[a + n - 1], word[n])

KbEntryMatches(entry, ticket) ==
  \E w \in KbKeywords(entry) : OccursIn(Chars[w], TicketText(ticket))

\* C22: the knowledge-base check answers with the resolution of the first
\* entry, in the order PASSWORD_RESET, WIFI_CONNECTION, SOFTWARE_CRASH, one of
\* whose keywords occurs, letter case apart, in the text made of the title and
\* the description, and with None when no entry has such a keyword; a text with
\* keywords of several entries gets the resolution of the earliest of them.
C22_FirstMatchingEntry ==
  fn_out # None =>
    /\ \A k \in 1..Len(KbOrder) :
         (KbEntryMatches(KbOrder[k], fn_in)
            /\ \A m \in 1..(k - 1) : ~KbEntryMatches(KbOrder[m], fn_in))
           => fn_out[1] = Some(KbResolution(KbOrder[k]))
    /\ (\A k \in 1..Len(KbOrder) : ~KbEntryMatches(KbOrder[k], fn_in))
         => fn_out[1] = None

\* A text with "crash" in its title and "password" in its description has been
\* answered with the PASSWORD_RESET text.
C22_Witness ==
  /\ fn_out = Some(Some(PASSWORD_RESET_resolution))
  /\ fn_in.title = Chars["crash"]
  /\ fn_in.description = Chars["pass"] \o Chars["word"]

-----------------------------------------------------------------------------
\* Properties of the AI fallback.

EscalationPhrases == {"contact it", "admin required"}

\* The answer of the capability is the word None, letter case apart.
ExplicitDecline(content) ==
  /\ Len(content) = Len(Chars["none"])
  /\ OccursIn(Chars["none"], content)

\* C23: _generate_ai_resolution returns None for an answer of the capability
\* that contains "contact it" or "admin required", letter case apart, or that
\* is the decline None, and returns every other answer that is not empty
\* unchanged, so that no usable resolution is discarded.
C23_UsableResolutionKept ==
  (fn_out # None /\ ~fn_in.outcome.raised) =>
    LET content == Chars[fn_in.outcome.content]
        declined == \/ \E p \in EscalationPhrases : OccursIn(Chars[p], content)
                    \/ ExplicitDecline(content)
    IN  /\ declined => fn_out[1].value = None
        /\ (~declined /\ content # << >>) =>
             fn_out[1].value = Some(fn_in.outcome.content)

-----------------------------------------------------------------------------
\* Properties of the order of the steps of create_ticket.

\* The stage of create_ticket a call belongs to: classification (category and
\* priority), auto-resolution, assignment, estimate.
Stage(step) ==
  CASE step = "classify_ticket" -> 1
    [] step \in {"cache_get", "knowledge_base", "ai_call", "ai_return", "cache_setex"} -> 2
    [] step = "assign_ticket" -> 3
    [] step = "predict_resolution_time" -> 4

Count(i, step) == Cardinality({ k \in 1..Len(intake[i].steps) : intake[i].steps[k] = step })

\* The calls a create_ticket has made so far are in the order of the stages,
\* beginning with the classification, which gives the ticket its category and
\* its priority; while auto-resolution waits for the AI fallback nothing of
\* the later stages has run; the assignment is made once, and only for a ticket
\* that auto-resolution left unresolved; a create_ticket that has returned ends
\* with one estimate.
C24_State ==
  \A i \in DOMAIN intake :
    LET s == intake[i].steps
    IN  /\ s # << >> => s[1] = "classify_ticket"
        /\ \A k \in 1..(Len(s) - 1) : Stage(s[k]) <= Stage(s[k + 1])
        /\ Count(i, "classify_ticket") <= 1 /\ Count(i, "assign_ticket") <= 1
        /\ Count(i, "predict_resolution_time") <= 1
        /\ intake[i].ticket # None =>
             intake[i].ticket[1].priority = priority_of[intake[i].request[1]]
        /\ intake[i].pc = "ai" =>
             ~Made(i, "assign_ticket") /\ ~Made(i, "predict_resolution_time")
        /\ Made(i, "assign_ticket") =>
             /\ Get(intake[i].ticket[1], "resolution") = None
             /\ intake[i].ticket[1].status = Status_IN_PROGRESS
        /\ intake[i].pc = "done" =>
             /\ s[Len(s)] = "predict_resolution_time"
             /\ intake[i].ticket[1].status \in {Status_RESOLVED, Status_IN_PROGRESS}
             /\ (intake[i].ticket[1].status = Status_IN_PROGRESS) = Made(i, "assign_ticket")

\* The view a create_ticket returns carries the estimate of
\* predict_resolution_time for the ticket as it is at the return, resolved or
\* assigned.
C24_Step ==
  \A i \in DOMAIN intake :
    (intake[i].pc # "done" /\ intake'[i].pc = "done") =>
      /\ intake'[i].response # None
      /\ intake'[i].response[1].estimated_resolution_time
           = predict_resolution_time(intake'[i].ticket[1], now)
      /\ intake'[i].response[1].status = intake'[i].ticket[1].status

\* C24: within one create_ticket the steps run in the order classification
\* (category, priority), auto-resolution, assignment (only when unresolved),
\* estimate; the assignment does not start before auto-resolution has returned,
\* and the estimate is computed and put in the returned view both when the
\* ticket is RESOLVED and when it is IN_PROGRESS.
C24_StepOrder == []C24_State /\ [][C24_Step]_vars

\* One ticket came back RESOLVED from the AI fallback and another IN_PROGRESS
\* after the AI fallback declined, each with its estimate.
C24_Witness ==
  \E i, j \in DOMAIN intake :
    /\ intake[i].pc = "done" /\ intake[j].pc = "done"
    /\ Made(i, "ai_return") /\ Made(j, "ai_return")
    /\ intake[i].response[1].status = Status_RESOLVED
    /\ intake[j].response[1].status = Status_IN_PROGRESS
    /\ Made(j, "assign_ticket") /\ ~Made(i, "assign_ticket")
    /\ intake[i].response[1].estimated_resolution_time > 0
    /\ intake[j].response[1].estimated_resolution_time > 0

-----------------------------------------------------------------------------
\* Properties of the cache key.

\* The slot of a ticket as claimed: its category and the first 50 characters
\* of its title.
SlotOf(ticket) == <<ticket.category, Take(Chars[ticket.title], 50)>>

\* Two tickets have the same cache key exactly when they have the same category
\* and the same first 50 characters of the title.
C25_KeyIsSlot ==
  \A i, j \in DOMAIN intake :
    (intake[i].ticket # None /\ intake[j].ticket # None) =>
      ((KeyOf(i) = KeyOf(j)) = (SlotOf(intake[i].ticket[1]) = SlotOf(intake[j].ticket[1])))

\* A request answered from the cache takes the resolution of a create_ticket
\* of its own slot.
C25_HitFromOwnSlot ==
  \A j \in DOMAIN intake :
    (Starts(j) /\ intake'[j].steps = CacheHitSteps) =>
      \E i \in DOMAIN intake \ {j} :
        /\ intake[i].pc = "done" /\ Made(i, "cache_setex")
        /\ SlotOf(intake[i].ticket[1]) = SlotOf(intake'[j].ticket[1])
        /\ intake'[j].ticket[1].resolution = intake[i].ticket[1].resolution

\* As claimed: whatever its priority, the second ticket of a slot, started
\* before the time to live of the first's entry has elapsed, receives the
\* first's resolution.
C25_SecondReceives ==
  \A i, j \in DOMAIN intake :
    (/\ intake[i].pc = "done" /\ Made(i, "cache_setex")
     /\ Starts(j)
     /\ SlotOf(intake'[j].ticket[1]) = SlotOf(intake[i].ticket[1])
     /\ cache_log[KeyOf(i)].value = intake[i].ticket[1].resolution
     /\ now < cache_log[KeyOf(i)].at + 3600) =>
      Get(intake'[j].ticket[1], "resolution") = Some(intake[i].ticket[1].resolution)

\* The same for a second ticket of priority LOW or MEDIUM, which is answered
\* from the cache alone.
C25_SecondAutoResolvedReceives ==
  \A i, j \in DOMAIN intake :
    (/\ intake[i].pc = "done" /\ Made(i, "cache_setex")
     /\ Starts(j)
     /\ intake'[j].ticket[1].priority \in AutoResolved
     /\ SlotOf(intake'[j].ticket[1]) = SlotOf(intake[i].ticket[1])
     /\ cache_log[KeyOf(i)].value = intake[i].ticket[1].resolution
     /\ now < cache_log[KeyOf(i)].at + 3600) =>
      /\ intake'[j].steps = CacheHitSteps
      /\ Get(intake'[j].ticket[1], "resolution") = Some(intake[i].ticket[1].resolution)

\* C25, as claimed: the cache key is the category and the first 50 characters
\* of the title; the second of two tickets of one slot receives, within the
\* time to live, the first's cached resolution, even with another description
\* that the knowledge base would answer differently or not at all; tickets
\* that differ in the category or in the first 50 characters of the title
\* never share a slot.
C25_SlotShared ==
  []C25_KeyIsSlot /\ [][C25_HitFromOwnSlot /\ C25_SecondReceives]_vars

\* C25, amended: the same, for a second ticket whose priority is LOW or
\* MEDIUM; a second ticket of priority HIGH or CRITICAL does not read the
\* cache.
C25_SlotSharedByAutoResolved ==
  []C25_KeyIsSlot /\ [][C25_HitFromOwnSlot /\ C25_SecondAutoResolvedReceives]_vars

\* A ticket has been answered from the cache with the knowledge-base
\* resolution of an earlier ticket of its slot, whose title differs after the
\* 50th character, although the knowledge base has another entry for its own
\* text.
C25_Witness ==
  \E i, j \in DOMAIN intake :
    /\ intake[i].pc = "done" /\ Made(i, "cache_setex") /\ ~Made(i, "ai_call")
    /\ intake[j].steps = CacheHitSteps
    /\ SlotOf(intake[j].ticket[1]) = SlotOf(intake[i].ticket[1])
    /\ intake[j].ticket[1].title # intake[i].ticket[1].title
    /\ intake[j].ticket[1].resolution = intake[i].ticket[1].resolution
    /\ kb_of[intake[j].request[1]] # None
    /\ kb_of[intake[j].request[1]] # Some(intake[j].ticket[1].resolution)

-----------------------------------------------------------------------------
\* Properties of the cache under interleaved create_ticket calls.

\* The step in which create_ticket of request i writes to the cache.
Writes(i) ==
  /\ intake[i].pc \in {"idle", "ai"}
  /\ intake'[i].pc = "done"
  /\ Made(i, "cache_setex")'

\* What GET answers for a key is the encoded resolution of a create_ticket
\* that wrote under that key.
C26_State ==
  \A key \in DOMAIN cache :
    LET got == redis_get(cache, key, now)
    IN  got # None =>
          \E i \in DOMAIN intake :
            /\ intake[i].pc = "done" /\ Made(i, "cache_setex")
            /\ KeyOf(i) = key
            /\ got[1] = Encoded[intake[i].ticket[1].resolution]

\* A write leaves its own value under its key, whatever another create_ticket
\* has written there in between, and leaves the entry of every other key as
\* it was.
C26_Step ==
  \A i \in DOMAIN intake :
    Writes(i) =>
      /\ KeyOfNext(i) \in DOMAIN cache'
      /\ cache'[KeyOfNext(i)].value = Encoded[intake'[i].ticket[1].resolution]
      /\ DOMAIN cache' = DOMAIN cache \cup {KeyOfNext(i)}
      /\ \A key \in DOMAIN cache : key # KeyOfNext(i) => cache'[key] = cache[key]

\* C26: under every interleaving of create_ticket calls a GET on a key answers
\* with a miss or with a value that some create_ticket wrote under that key;
\* of two create_ticket calls that write under one key the later write stays;
\* a write under one key leaves the entries of the other keys unchanged.
C26_NoInterference == []C26_State /\ [][C26_Step]_vars

\* Two create_ticket calls raced on one key: the first waited for the AI
\* fallback while the second missed the cache and wrote the knowledge-base
\* resolution; the first wrote its AI resolution afterwards, and the cache
\* holds that one.
C26_Witness ==
  \E i, j \in DOMAIN intake :
    /\ ArrivesBefore(i, j)
    /\ intake[i].pc = "done" /\ intake[j].pc = "done"
    /\ Made(i, "ai_return") /\ Made(i, "cache_setex")
    /\ Made(j, "knowledge_base") /\ Made(j, "cache_setex")
    /\ KeyOf(i) = KeyOf(j)
    /\ intake[i].ticket[1].resolution # intake[j].ticket[1].resolution
    /\ cache[KeyOf(i)].value = Encoded[intake[i].ticket[1].resolution]
    /\ intake[j].ticket[1].created_at + 3600 > now

-----------------------------------------------------------------------------
\* Properties of the assignment over a sequence of requests.

\* The handler the roster of assign_ticket gives each category, with the loads
\* 5 of 10, 3 of 12 and 7 of 8 it is written with.
HandlerOf(category) ==
  CASE category \in {"HARDWARE", "NETWORK"} -> "john.doe@company.com"
    [] category \in {"SOFTWARE", "EMAIL"} -> "jane.smith@company.com"
    [] category = "ACCESS" -> "bob.wilson@company.com"
    [] OTHER -> "jane.smith@company.com"

\* C27: assign_ticket leaves the roster as it is and answers from the category
\* alone: after any sequence of requests every assigned ticket has the handler
\* the unchanged roster gives its category, whatever its priority and whatever
\* was assigned before, so two assigned tickets of one category have the same
\* handler.
C27_HandlerByCategoryAlone ==
  \A i, j \in DOMAIN intake :
    (/\ intake[i].pc = "done" /\ "assignee" \in DOMAIN intake[i].ticket[1]
     /\ intake[j].pc = "done" /\ "assignee" \in DOMAIN intake[j].ticket[1]) =>
      /\ intake[i].ticket[1].assignee = HandlerOf(intake[i].ticket[1].category)
      /\ intake[i].response[1].assignee = Some(HandlerOf(intake[i].ticket[1].category))
      /\ intake[i].ticket[1].category = intake[j].ticket[1].category =>
           intake[i].ticket[1].assignee = intake[j].ticket[1].assignee

\* Two tickets of the category ACCESS, one CRITICAL and one LOW that the AI
\* fallback declined, have been assigned one after the other to the handler
\* whose load is 7 of 8.
C27_Witness ==
  \E i, j \in DOMAIN intake :
    /\ i # j
    /\ intake[i].pc = "done" /\ intake[j].pc = "done"
    /\ intake[i].ticket[1].category = "ACCESS" /\ intake[j].ticket[1].category = "ACCESS"
    /\ intake[i].ticket[1].priority = Priority_CRITICAL
    /\ intake[j].ticket[1].priority = Priority_LOW /\ Made(j, "ai_return")
    /\ Get(intake[i].ticket[1], "assignee") = Some("bob.wilson@company.com")
    /\ Get(intake[j].ticket[1], "assignee") = Some("bob.wilson@company.com")

-----------------------------------------------------------------------------
\* Properties of what auto_resolve_ticket leaves in the cache.

\* The cache changes only in a step in which a create_ticket returns with a
\* resolution of the knowledge base or of the AI fallback, and then only in the
\* entry of that ticket's key.
C28_OnlyOnResolution ==
  cache' # cache =>
    \E i \in DOMAIN intake :
      /\ intake[i].pc \in {"idle", "ai"} /\ intake'[i].pc = "done"
      /\ intake'[i].ticket[1].status = Status_RESOLVED
      /\ Made(i, "knowledge_base")'
      /\ \/ Some(intake'[i].ticket[1].resolution) = kb_of[intake'[i].request[1]]
         \/ Made(i, "ai_return")'
      /\ \A key \in DOMAIN cache \cup DOMAIN cache' :
           key # KeyOfNext(i) => Get(cache', key) = Get(cache, key)

\* A create_ticket answered from the cache leaves the cache as it was, the
\* expiry of the entry included.
C28_HitLeavesCache ==
  \A j \in DOMAIN intake :
    (/\ Starts(j)
     /\ intake'[j].ticket[1].priority \in AutoResolved
     /\ redis_get(cache, KeyOfNext(j), now) # None) =>
      /\ cache' = cache
      /\ Get(intake'[j].ticket[1], "resolution")
           = Some(decode_utf8(redis_get(cache, KeyOfNext(j), now)[1]))

\* A create_ticket that ends without a resolution, or with an exception, leaves
\* the cache as it was.
C28_UnresolvedLeavesCache ==
  \A i \in DOMAIN intake :
    (/\ intake[i].pc \in {"idle", "ai"}
     /\ intake'[i] # intake[i]
     /\ \/ intake'[i].pc = "failed"
        \/ intake'[i].pc = "ai"
        \/ intake'[i].pc = "done" /\ intake'[i].ticket[1].status = Status_IN_PROGRESS) =>
      cache' = cache

\* C28: auto_resolve_ticket changes the cache only when the knowledge base or
\* the AI fallback has produced a resolution, and then only the entry of the
\* ticket's own key; a cache hit leaves the cache unchanged, the expiry of the
\* entry is not extended; a create_ticket that ends unresolved (no
\* knowledge-base match and the AI fallback declined, failed or not called)
\* writes nothing, so no negative result is in the cache.
C28_CacheFrame ==
  [][C28_OnlyOnResolution /\ C28_HitLeavesCache /\ C28_UnresolvedLeavesCache]_vars

\* A ticket has been answered from the cache half an hour or more after the
\* entry was set, and the entry still expires an hour after it was set.
C28_Witness ==
  \E j \in DOMAIN intake :
    /\ intake[j].steps = CacheHitSteps
    /\ KeyOf(j) \in DOMAIN cache /\ KeyOf(j) \in DOMAIN cache_log
    /\ cache_log[KeyOf(j)].at + TickStep <= intake[j].ticket[1].created_at
    /\ cache[KeyOf(j)].expire_at = cache_log[KeyOf(j)].at + 3600
    /\ cache[KeyOf(j)].expire_at < intake[j].ticket[1].created_at + 3600

====
